---- MODULE Spec2Model ----
(***************************************************************************)
(* Model of the run-lifecycle core of the LiDAR world-model node:          *)
(*   - JsonlEventSink  (src/core/events/jsonl_event_sink.cpp), the         *)
(*     two-file sink with a per-run primary file and events_latest.jsonl;  *)
(*   - the earlier single-file JsonlEventSink with escape_json that the    *)
(*     repository keeps in src/core/util/config_loader.cpp:241-367;        *)
(*   - NodeRunner (src/core/model/node_runner.cpp:1-151).                  *)
(*                                                                         *)
(* A file is the flat sequence of the items written to it.  An item is a   *)
(* triple <<kind, text, number>>: either one raw byte of a free-text       *)
(* field (<<"byte", "", b>>) or a structural chunk of the JSON object      *)
(* that contains no newline (a key with a number, a type tag, a hash).     *)
(* A physical line ends at every raw byte 10.                              *)
(*                                                                         *)
(* A std::ofstream is the record [is_open, path, good]: `good` is false    *)
(* once a write, a flush or an open on it has failed, and a stream that    *)
(* is not good ignores further output.  Whether an individual I/O call     *)
(* fails is chosen by the environment (the `io` argument of each           *)
(* operation).                                                             *)
(***************************************************************************)
EXTENDS Integers, Sequences, FiniteSets, TLC

VARIABLES
  files,    \* the file system: path -> content, DOMAIN files = existing files
  sink,     \* the JsonlEventSink object (two-file variant)
  lsink,    \* the single-file JsonlEventSink object (config_loader.cpp:241-367)
  runner,   \* the NodeRunner object
  steady,   \* std::chrono::steady_clock
  wall,     \* std::chrono::system_clock
  ret,      \* the last call and what it returned
  hist,     \* history of the calls made so far (not program state)
  esc,      \* input and output of the last escape_json call
  fdir,     \* the frame directory: entry name -> [regular, size]
  fsrc,     \* the FrameDirSource object that lists its directory
  isrc,     \* the FrameDirSource object that reads frames by index
  synth,    \* the SynthFrameSource object
  out,      \* the last call on a frame source or hash and its result
  seen      \* results of the earlier such calls (not program state)

coreVars == <<files, sink, lsink, runner, steady, wall, ret, hist, esc>>

adapterVars == <<fdir, fsrc, isrc, synth, out, seen>>

vars == <<files, sink, lsink, runner, steady, wall, ret, hist, esc,
          fdir, fsrc, isrc, synth, out, seen>>

----------------------------------------------------------------------------
(* Bounds *)

MaxWall   == 1      \* the wall clock takes the values 0..MaxWall
MaxSteady == 2      \* the steady clock takes the values 0..MaxSteady
MaxOpens  == 2      \* open (start) calls per behaviour
MaxEmits  == 2      \* emit calls per behaviour
MaxEscLen == 3      \* length of the strings given to escape_json
MaxExtraRuns == 2   \* run files in the output directory beyond the retention count
MaxFrames == 3      \* frame files in the frame directory
MaxPulls  == 4      \* frames one listing reader returns per behaviour
MaxTick   == 82     \* frames the synthetic source returns between resets
MaxHashCalls == 2   \* distinct direct calls of the two hash functions
MaxLoopPulls == 3   \* frames the driver loop pulls in one run
MaxNameTime == 12   \* wall-clock start times of the runs whose file names are compared
MaxIncludeDepth == 4  \* nested calls of load_with_includes the stack has room for
MaxReplayTicks == 4   \* iterations of the replay driver loop that pull from the source

----------------------------------------------------------------------------
(* Status codes (include/wm/core/status.hpp) *)

kOk              == "kOk"
kInvalidArgument == "kInvalidArgument"
kIoError         == "kIoError"
kInternal        == "kInternal"
kNotFound        == "kNotFound"
kOutOfRange      == "kOutOfRange"
kCorruptData     == "kCorruptData"
\* A call that ends by throwing an exception returns no Status.
Thrown           == "exception"

----------------------------------------------------------------------------
(* Text items *)

Byte(b)     == <<"byte", "", b>>
Chunk(k, n) == <<k, "", n>>
Tag(k, s)   == <<k, s, 0>>
NL          == Byte(10)

RECURSIVE Bytes(_)
Bytes(s) == IF s = <<>> THEN <<>> ELSE <<Byte(Head(s))>> \o Bytes(Tail(s))

\* The physical lines of a text: the newline-terminated pieces, in order
\* (the newline itself is dropped; an unterminated tail is not a line).
RECURSIVE SplitLines(_, _)
SplitLines(text, cur) ==
  IF text = <<>> THEN <<>>
  ELSE IF Head(text) = NL THEN <<cur>> \o SplitLines(Tail(text), <<>>)
  ELSE SplitLines(Tail(text), Append(cur, Head(text)))

Lines(text) == SplitLines(text, <<>>)

\* Some byte strings: "", "n", "a", a double quote, "a\nb"
StrEmpty   == <<>>
StrN       == <<110>>
StrA       == <<97>>
StrQuote   == <<34>>
StrNewline == <<97, 10, 98>>

----------------------------------------------------------------------------
(* Paths: <<directory, kind, number>>.  join_path(out_dir, "events_" +     *)
(* to_string(wall0) + ".jsonl") is <<out_dir, "events", wall0>> and        *)
(* join_path(out_dir, "events_latest.jsonl") is <<out_dir, "latest", 0>>.  *)

NoPath == <<"", "none", 0>>

PrimaryPath(out_dir, wall0) == <<out_dir, "events", wall0>>

LatestPath(out_dir) == <<out_dir, "latest", 0>>

----------------------------------------------------------------------------
(* std::ofstream *)

ClosedStream == [is_open |-> FALSE, path |-> NoPath, good |-> TRUE]

\* ofstream::open(p, mode): fails (failbit) on a stream that is already
\* open; otherwise opens or fails as the environment decides.  "trunc"
\* empties the file, "app" keeps what is there; both create a missing file.
ofstream_open(st, fls, p, mode, ok) ==
  IF st.is_open
    THEN [st |-> [st EXCEPT !.good = FALSE], files |-> fls]
  ELSE IF ~ok
    THEN [st |-> [is_open |-> FALSE, path |-> NoPath, good |-> FALSE], files |-> fls]
  ELSE [st    |-> [is_open |-> TRUE, path |-> p, good |-> TRUE],
        files |-> IF mode = "app" /\ p \in DOMAIN fls
                    THEN fls
                    ELSE (p :> <<>>) @@ fls]

\* stream << text: appended when the stream is open and good and the write
\* succeeds; otherwise nothing is appended and the stream is not good.
ofstream_write(st, fls, text, ok) ==
  IF st.is_open /\ st.good /\ ok
    THEN [st |-> st, files |-> [fls EXCEPT ![st.path] = @ \o text]]
    ELSE [st |-> [st EXCEPT !.good = FALSE], files |-> fls]

\* ofstream::flush()
ofstream_flush(st, ok) ==
  IF st.is_open /\ st.good /\ ~ok THEN [st EXCEPT !.good = FALSE] ELSE st

\* ofstream::close()
ofstream_close(st) == [st EXCEPT !.is_open = FALSE, !.path = NoPath]

----------------------------------------------------------------------------
(* JsonlEventSink, two-file variant (src/core/events/jsonl_event_sink.cpp) *)

\* ns_to_s rendered with std::fixed << std::setprecision(6): the value in
\* seconds with six decimals, i.e. the nanoseconds rounded to microseconds.
ns_to_s(ns) == (ns + 500) \div 1000

SinkInit ==
  [open_ |-> FALSE, path_ |-> NoPath, latest_path_ |-> NoPath,
   f_ |-> ClosedStream, latest_ |-> ClosedStream]

\* The run header line built by open(); node_id and config_path are
\* inserted as they are.
RunHeaderLine(run) ==
  <<Tag("type", "run_started"),
    Chunk("t_ns", run.start_time_ns),
    Chunk("t_s", ns_to_s(run.start_time_ns)),
    Chunk("t_wall_ns", run.wall_start_time_ns),
    Chunk("t_wall_s", ns_to_s(run.wall_start_time_ns)),
    Tag("begin", "node_id")>> \o Bytes(run.node_id) \o
  <<Tag("end", "node_id"),
    Tag("begin", "config_path")>> \o Bytes(run.config_path) \o
  <<Tag("end", "config_path"),
    Chunk("config_hash", run.config_hash),
    Chunk("calibration_hash", run.calibration_hash)>>

\* The message field of an event line: omitted when empty, otherwise the
\* message bytes as they are.
MessageField(message) ==
  IF message = <<>> THEN <<>>
  ELSE <<Tag("begin", "message")>> \o Bytes(message) \o <<Tag("end", "message")>>

\* The event line built by emit().
EventLine(e) ==
  <<Tag("type", e.type),
    Chunk("t_ns", e.t_ns),
    Chunk("t_s", ns_to_s(e.t_ns)),
    Chunk("t_wall_ns", e.t_wall_ns),
    Chunk("t_wall_s", ns_to_s(e.t_wall_ns))>> \o MessageField(e.message)

\* close()
SinkClose(sk) ==
  [sk EXCEPT !.f_ = IF sk.f_.is_open THEN ofstream_close(sk.f_) ELSE sk.f_,
             !.latest_ = IF sk.latest_.is_open THEN ofstream_close(sk.latest_)
                         ELSE sk.latest_,
             !.open_ = FALSE]

\* write_line_ that checks the primary stream only.
write_line_primary_checked(sk, fls, line, io) ==
  LET w1 == ofstream_write(sk.f_, fls, line \o <<NL>>, io.wF)
      w2 == ofstream_write(sk.latest_, w1.files, line \o <<NL>>, io.wL)
  IN  [sink   |-> [sk EXCEPT !.f_ = w1.st, !.latest_ = w2.st],
       files  |-> w2.files,
       status |-> IF ~w1.st.good THEN kIoError ELSE kOk]

\* write_line_(line): both streams are written, then both are checked.
write_line_(sk, fls, line, io) ==
  LET w1 == ofstream_write(sk.f_, fls, line \o <<NL>>, io.wF)
      w2 == ofstream_write(sk.latest_, w1.files, line \o <<NL>>, io.wL)
  IN  [sink   |-> [sk EXCEPT !.f_ = w1.st, !.latest_ = w2.st],
       files  |-> w2.files,
       status |-> IF ~w1.st.good THEN kIoError
                  ELSE IF ~w2.st.good THEN kIoError
                  ELSE kOk]

\* flush() without the test of open_: the streams are flushed and checked.
SinkFlushUnguarded(sk, fls, io) ==
  LET f1 == ofstream_flush(sk.f_, io.flF)
      f2 == ofstream_flush(sk.latest_, io.flL)
  IN  [sink   |-> [sk EXCEPT !.f_ = f1, !.latest_ = f2],
       files  |-> fls,
       status |-> IF ~f1.good THEN kIoError
                  ELSE IF ~f2.good THEN kIoError
                  ELSE kOk]

\* flush()
SinkFlush(sk, fls, io) ==
  IF ~sk.open_ THEN [sink |-> sk, files |-> fls, status |-> kOk]
  ELSE LET f1 == ofstream_flush(sk.f_, io.flF)
           f2 == ofstream_flush(sk.latest_, io.flL)
       IN  [sink   |-> [sk EXCEPT !.f_ = f1, !.latest_ = f2],
            files  |-> fls,
            status |-> IF ~f1.good THEN kIoError
                       ELSE IF ~f2.good THEN kIoError
                       ELSE kOk]

\* emit(e)
SinkEmit(sk, fls, e, io) ==
  IF ~sk.open_ THEN [sink |-> sk, files |-> fls, status |-> kInvalidArgument]
  ELSE write_line_(sk, fls, EventLine(e), io)

\* The primary stream of open(): out | trunc on path_.
OpenPrimaryStream(st, fls, p, ok) == ofstream_open(st, fls, p, "trunc", ok)

\* The latest stream opened for append instead of truncation.
OpenLatestStreamAppend(st, fls, p, ok) == ofstream_open(st, fls, p, "app", ok)

\* The latest stream of open(): out | trunc on latest_path_.
OpenLatestStream(st, fls, p, ok) == ofstream_open(st, fls, p, "trunc", ok)

\* open() that does not close the existing session first.
OpenKeepsSession(sk) == sk

\* The close() that open() starts with.
OpenClosesFirst(sk) == SinkClose(sk)

\* open(run)
SinkOpen(sk, fls, run, io) ==
  LET c  == OpenClosesFirst(sk)
      p  == PrimaryPath(run.out_dir, run.wall_start_time_ns)
      lp == LatestPath(run.out_dir)
      c2 == [c EXCEPT !.path_ = p, !.latest_path_ = lp]
      o1 == OpenPrimaryStream(c2.f_, fls, p, io.openF)
      s1 == [c2 EXCEPT !.f_ = o1.st]
      o2 == OpenLatestStream(s1.latest_, o1.files, lp, io.openL)
      s2 == [s1 EXCEPT !.latest_ = o2.st]
      s3 == [s2 EXCEPT !.open_ = TRUE]
      w  == write_line_(s3, o2.files, RunHeaderLine(run), io)
      fl == SinkFlush(w.sink, w.files, io)
  IN  IF ~io.mkdir
        THEN [sink |-> c, files |-> fls, status |-> kIoError]
      ELSE IF ~s1.f_.is_open
        THEN [sink |-> s1, files |-> o1.files, status |-> kIoError]
      ELSE IF ~s2.latest_.is_open
        THEN [sink |-> s2, files |-> o2.files, status |-> kIoError]
      ELSE IF w.status # kOk
        THEN w
      ELSE [sink |-> fl.sink, files |-> fl.files, status |-> kOk]

\* What the environment decides in one call: whether opening the directory
\* listing, advancing it and the removals of pruning, create_directories, the two stream opens,
\* the two writes and the two flushes, and the read of a frame file succeed.
\* At most one of them fails in one call.
IoFields ==
  {"list", "listNext", "rm", "mkdir", "openF", "openL", "wF", "wL", "flF", "flL",
   "rd"}

IoChoices ==
  {[k \in IoFields |-> k # bad] : bad \in IoFields \cup {"none"}}

IoAllOk == [k \in IoFields |-> TRUE]

IoFor(fields) ==
  {[k \in IoFields |-> k # bad] : bad \in fields \cup {"none"}}

----------------------------------------------------------------------------
(* escape_json (src/core/util/config_loader.cpp:255-281), on byte strings *)

\* One hexadecimal digit as std::hex prints it (lower case).
HexDigit(d) == IF d < 10 THEN 48 + d ELSE 87 + d

\* "\u" followed by the value in hex, std::setw(4), std::setfill('0').
NumericEscape(c) ==
  <<92, 117, 48, 48, HexDigit(c \div 16), HexDigit(c % 16)>>

\* The switch without the case for the backslash.
EscapeCharNoBackslash(c) ==
  CASE c = 34 -> <<92, 34>>
    [] c = 8  -> <<92, 98>>
    [] c = 12 -> <<92, 102>>
    [] c = 10 -> <<92, 110>>
    [] c = 13 -> <<92, 114>>
    [] c = 9  -> <<92, 116>>
    [] OTHER  -> IF c < 32 THEN NumericEscape(c) ELSE <<c>>

\* The switch on one character.
EscapeChar(c) ==
  CASE c = 34 -> <<92, 34>>
    [] c = 92 -> <<92, 92>>
    [] c = 8  -> <<92, 98>>
    [] c = 12 -> <<92, 102>>
    [] c = 10 -> <<92, 110>>
    [] c = 13 -> <<92, 114>>
    [] c = 9  -> <<92, 116>>
    [] OTHER  -> IF c < 32 THEN NumericEscape(c) ELSE <<c>>

RECURSIVE escape_json(_)
escape_json(s) ==
  IF s = <<>> THEN <<>> ELSE EscapeChar(Head(s)) \o escape_json(Tail(s))

----------------------------------------------------------------------------
(* JsonlEventSink, single-file variant                                     *)
(* (src/core/util/config_loader.cpp:283-364)                               *)

LegacySinkInit == [ofs_ |-> ClosedStream, path_ |-> NoPath]

\* A free-text field: the escaped bytes between its quotes.
EscapedField(k, str) ==
  <<Tag("begin", k)>> \o Bytes(escape_json(str)) \o <<Tag("end", k)>>

LegacyRunHeaderLine(run) ==
  <<Tag("type", "run_started"),
    Chunk("t_ns", run.start_time),
    Chunk("t_s", ns_to_s(run.start_time))>> \o
  EscapedField("node_id", run.node_id) \o
  EscapedField("config_path", run.config_path) \o
  <<Chunk("config_hash", run.config_hash),
    Chunk("calibration_hash", run.calibration_hash)>>

\* The optional fields are written only when set.
LegacyEventLine(e) ==
  <<Tag("type", e.type),
    Chunk("t_ns", e.timestamp),
    Chunk("t_s", ns_to_s(e.timestamp))>> \o
  (IF e.frame # <<>>
     THEN EscapedField("frame", e.frame) \o <<Chunk("aabb", e.aabb)>>
     ELSE <<>>) \o
  (IF e.message # <<>> THEN EscapedField("message", e.message) ELSE <<>>) \o
  (IF e.confidence > 0 THEN <<Chunk("confidence", e.confidence)>> ELSE <<>>) \o
  (IF e.persistence_s > 0 THEN <<Chunk("persistence_s", e.persistence_s)>> ELSE <<>>)

\* close(): flush and close the stream if it is open, clear path_.
LegacySinkClose(sk) ==
  [ofs_  |-> IF sk.ofs_.is_open THEN ofstream_close(sk.ofs_) ELSE sk.ofs_,
   path_ |-> NoPath]

\* open(run): the file is opened for append; neither the header write nor
\* the flush is checked.
LegacySinkOpen(sk, fls, run, io) ==
  LET c == LegacySinkClose(sk)
      p == PrimaryPath(run.out_dir, run.start_time)
      o == ofstream_open(c.ofs_, fls, p, "app", io.openF)
      w == ofstream_write(o.st, o.files, LegacyRunHeaderLine(run) \o <<NL>>, io.wF)
  IN  IF ~io.mkdir
        THEN [sink |-> c, files |-> fls, status |-> kIoError]
      ELSE IF ~o.st.is_open
        THEN [sink |-> [ofs_ |-> o.st, path_ |-> p], files |-> o.files,
              status |-> kIoError]
      ELSE [sink |-> [ofs_ |-> ofstream_flush(w.st, io.flF), path_ |-> p],
            files |-> w.files, status |-> kOk]

\* emit(e): the line is written and OK is returned.
LegacySinkEmit(sk, fls, e, io) ==
  IF ~sk.ofs_.is_open
    THEN [sink |-> sk, files |-> fls, status |-> kInternal]
    ELSE LET w == ofstream_write(sk.ofs_, fls, LegacyEventLine(e) \o <<NL>>, io.wF)
         IN  [sink |-> [sk EXCEPT !.ofs_ = w.st], files |-> w.files, status |-> kOk]

\* flush()
LegacySinkFlush(sk, fls, io) ==
  IF ~sk.ofs_.is_open
    THEN [sink |-> sk, files |-> fls, status |-> kOk]
    ELSE [sink |-> [sk EXCEPT !.ofs_ = ofstream_flush(sk.ofs_, io.flF)],
          files |-> fls, status |-> kOk]

----------------------------------------------------------------------------
(* Fingerprints (repro_hash.cpp).  A 64-bit value of Fnv1a64::h is four    *)
(* 16-bit limbs, lowest first.  A hasher is kept as the byte strings given *)
(* to add_bytes since it was constructed, in order; Fnv1a64Digest runs the *)
(* loop of add_bytes over them, from the value h is constructed with, and  *)
(* gives the member h after these calls.  A float or double value is given *)
(* by the bytes of its representation, an integer by its little-endian     *)
(* bytes.  An intermediate value is bound as the element of a one-element  *)
(* set where it is used more than once, so that it is computed once.       *)

HashModulus    == 65536
FnvOffsetBasis == <<899, 29597, 4016, 5221>>    \* 1469598103934665603
FnvPrime       == <<435, 0, 256, 0>>            \* 1099511628211

RECURSIVE Xor(_, _)
Xor(a, b) ==
  IF a = 0 THEN b
  ELSE IF b = 0 THEN a
  ELSE 2 * Xor(a \div 2, b \div 2) + ((a + b) % 2)

\* One round of add_bytes: h ^= byte; h *= prime (modulo 2^64).  The byte
\* touches the low eight bits of h only.
FnvRound(h, b) ==
  LET x0 == (h[1] \div 256) * 256 + Xor(h[1] % 256, b)
      p  == FnvPrime
      r0 == x0 * p[1]
      r1 == x0 * p[2] + h[2] * p[1] + (r0 \div HashModulus)
      r2 == x0 * p[3] + h[2] * p[2] + h[3] * p[1] + (r1 \div HashModulus)
      r3 == x0 * p[4] + h[2] * p[3] + h[3] * p[2] + h[4] * p[1] + (r2 \div HashModulus)
  IN  <<r0 % HashModulus, r1 % HashModulus, r2 % HashModulus, r3 % HashModulus>>

\* The element of a one-element set.
The(S) == CHOOSE x \in S : TRUE

\* The loop of add_bytes over bytes[lo..hi], first byte to last: the rounds
\* of the lower half of the range, then those of the upper half.
RECURSIVE FnvFold(_, _, _, _)
FnvFold(h, bytes, lo, hi) ==
  IF lo > hi THEN h
  ELSE IF lo = hi THEN FnvRound(h, bytes[lo])
  ELSE The({FnvFold(h2, bytes, ((lo + hi) \div 2) + 1, hi) :
              h2 \in {FnvFold(h, bytes, lo, (lo + hi) \div 2)}})

\* Fnv1a64 as constructed: nothing fed yet
Fnv1a64Init == <<>>

add_bytes(s, bytes) == Append(s, bytes)

\* The bytes of chunks[lo..hi], as one sequence.
RECURSIVE FedBytes(_, _, _)
FedBytes(chunks, lo, hi) ==
  IF lo > hi THEN <<>>
  ELSE IF lo = hi THEN chunks[lo]
  ELSE FedBytes(chunks, lo, (lo + hi) \div 2) \o
       FedBytes(chunks, ((lo + hi) \div 2) + 1, hi)

\* The little-endian two's-complement bytes of an integer of magnitude
\* below 2^31, n bytes wide.
LittleEndian(v, n) ==
  [i \in 1..n |->
     LET q == IF v < 0 THEN (0 - ((0 - v - 1) \div (256 ^ (i - 1)))) - 1
                       ELSE v \div (256 ^ (i - 1))
     IN  IF i <= 4 THEN ((q % 256) + 256) % 256
         ELSE IF v < 0 THEN 255 ELSE 0]

add_u64(s, v) == add_bytes(s, LittleEndian(v, 8))

add_i64(s, v) == add_bytes(s, LittleEndian(v, 8))

add_u32(s, v) == add_bytes(s, LittleEndian(v, 4))

add_i32(s, v) == add_bytes(s, LittleEndian(v, 4))

add_bool(s, v) == add_bytes(s, <<IF v THEN 1 ELSE 0>>)

add_string(s, str) == add_bytes(add_u64(s, Len(str)), str)

\* bit_cast to uint32, then add_u32: the four bytes of the float
add_float(s, v) == add_bytes(s, v)

\* bit_cast to uint64, then add_u64: the eight bytes of the double
add_double(s, v) == add_bytes(s, v)

add_vec3(s, v) == add_float(add_float(add_float(s, v.x), v.y), v.z)

add_aabb(s, a) == add_vec3(add_vec3(s, a.min), a.max)

\* add_float of the sixteen floats of the matrix, in row-major order
add_transform(s, T) ==
  add_bytes(s, [k \in 1..(4 * Len(T)) |-> T[((k - 1) \div 4) + 1][((k - 1) % 4) + 1]])

\* add_mode: 1 for a replay, 2 for every other mode
add_mode_constant(s, m) == add_i32(s, 1)

add_mode(s, m) == add_i32(s, IF m = "kReplay" THEN 1 ELSE 2)

\* to_hex: sixteen lower-case hexadecimal digits, highest first
to_hex(v) ==
  [i \in 1..16 |->
     HexDigit((v[4 - ((i - 1) \div 4)] \div (16 ^ (3 - ((i - 1) % 4)))) % 16)]

\* For a hasher: the member h after the add_bytes calls made so far, the
\* bytes that were fed, and to_hex(h.h).
Fnv1a64Digest(s) ==
  The({The({[h |-> v, fed |-> b, hex |-> to_hex(v)] :
              v \in {FnvFold(FnvOffsetBasis, b, 1, Len(b))}}) :
         b \in {FedBytes(s, 1, Len(s))}})

\* Float and double values by their bytes.
F32Zero == <<0, 0, 0, 0>>
F32One  == <<0, 0, 128, 63>>
F64Zero == <<0, 0, 0, 0, 0, 0, 0, 0>>

\* TransformSE3::identity()
Identity ==
  [i \in 1..16 |-> IF i \in {1, 6, 11, 16} THEN F32One ELSE F32Zero]

\* Config with the defaults of config.hpp, except for node_id and for the
\* durations capture_duration_ns and persistence_ns, which are 1 here.
\* out_dir is output.out_dir as the directory it names and out_dir_bytes
\* the bytes of that string.
DefaultConfig ==
  [mode |-> "kReplay", node_id |-> StrN,
   frames |-> [lidar_frame |-> <<108, 105, 100, 97, 114>>,
               node_frame |-> <<110, 111, 100, 101>>,
               site_frame |-> <<115, 105, 116, 101>>],
   calibration |-> [calibration_path |-> <<>>, T_node_lidar |-> Identity,
                    T_site_node |-> Identity, calibration_version |-> <<100, 101, 118>>],
   baseline |-> [capture_duration_ns |-> 1, warmup_duration_ns |-> 0],
   mapping |-> [voxel_size_m |-> <<10, 215, 163, 60>>, block_size_vox |-> 8,
                roi |-> [min |-> [x |-> <<0, 0, 32, 193>>, y |-> <<0, 0, 32, 193>>,
                                  z |-> <<0, 0, 0, 192>>],
                         max |-> [x |-> <<0, 0, 32, 65>>, y |-> <<0, 0, 32, 65>>,
                                  z |-> <<0, 0, 160, 64>>]],
                min_range_m |-> <<205, 204, 76, 62>>, max_range_m |-> <<0, 0, 72, 66>>,
                use_intensity |-> TRUE, integrate_hz |-> 10],
   budgets |-> [max_points_per_sec |-> 2000000, target_fps |-> 10,
                downsample_voxel_m |-> <<143, 194, 245, 60>>],
   change |-> [persistence_ns |-> 1, min_cluster_volume_m3 |-> <<10, 215, 35, 60>>,
               min_aabb_edge_m |-> <<205, 204, 204, 61>>,
               min_confidence |-> <<154, 153, 25, 63>>, prefer_site_frame |-> TRUE],
   replay |-> [dataset_path |-> <<>>, time_scale |-> F64Zero, start_offset_ns |-> 0,
               end_offset_ns |-> 0, loop |-> FALSE],
   input |-> [type |-> <<115, 121, 110, 116, 104>>, tick_hz |-> <<0, 0, 0, 0, 0, 0, 36, 64>>,
              heartbeat_every_s |-> 5, max_ticks |-> 0, max_run_s |-> F64Zero,
              synth |-> [seed |-> 1, num_points |-> 1600, enable_obstacle |-> TRUE,
                         obstacle_start_s |-> <<0, 0, 0, 0, 0, 0, 32, 64>>,
                         moving_obstacle |-> FALSE,
                         obstacle_speed_mps |-> <<0, 0, 128, 62>>],
              frame_dir |-> [path |-> <<>>, loop |-> FALSE, fps |-> F64Zero]],
   output |-> [heartbeat_period_s |-> 5],
   out_dir |-> "out", out_dir_bytes |-> <<111, 117, 116>>]

\* The fields of Config in the order of their declaration (config.hpp),
\* each with the kind of its value.
ConfigFields ==
  << <<<<"mode">>, "mode">>, <<<<"node_id">>, "string">>,
     <<<<"frames", "lidar_frame">>, "string">>,
     <<<<"frames", "node_frame">>, "string">>,
     <<<<"frames", "site_frame">>, "string">>,
     <<<<"calibration", "calibration_path">>, "string">>,
     <<<<"calibration", "T_node_lidar">>, "transform">>,
     <<<<"calibration", "T_site_node">>, "transform">>,
     <<<<"calibration", "calibration_version">>, "string">>,
     <<<<"baseline", "capture_duration_ns">>, "int">>,
     <<<<"baseline", "warmup_duration_ns">>, "int">>,
     <<<<"mapping", "voxel_size_m">>, "real">>,
     <<<<"mapping", "block_size_vox">>, "int">>,
     <<<<"mapping", "roi", "min">>, "vec3">>,
     <<<<"mapping", "roi", "max">>, "vec3">>,
     <<<<"mapping", "min_range_m">>, "real">>,
     <<<<"mapping", "max_range_m">>, "real">>,
     <<<<"mapping", "use_intensity">>, "bool">>,
     <<<<"mapping", "integrate_hz">>, "int">>,
     <<<<"budgets", "max_points_per_sec">>, "int">>,
     <<<<"budgets", "target_fps">>, "int">>,
     <<<<"budgets", "downsample_voxel_m">>, "real">>,
     <<<<"change", "persistence_ns">>, "int">>,
     <<<<"change", "min_cluster_volume_m3">>, "real">>,
     <<<<"change", "min_aabb_edge_m">>, "real">>,
     <<<<"change", "min_confidence">>, "real">>,
     <<<<"change", "prefer_site_frame">>, "bool">>,
     <<<<"replay", "dataset_path">>, "string">>,
     <<<<"replay", "time_scale">>, "real">>,
     <<<<"replay", "start_offset_ns">>, "int">>,
     <<<<"replay", "end_offset_ns">>, "int">>,
     <<<<"replay", "loop">>, "bool">>,
     <<<<"input", "type">>, "string">>,
     <<<<"input", "tick_hz">>, "real">>,
     <<<<"input", "heartbeat_every_s">>, "int">>,
     <<<<"input", "max_ticks">>, "int">>,
     <<<<"input", "max_run_s">>, "real">>,
     <<<<"input", "synth", "seed">>, "int">>,
     <<<<"input", "synth", "num_points">>, "int">>,
     <<<<"input", "synth", "enable_obstacle">>, "bool">>,
     <<<<"input", "synth", "obstacle_start_s">>, "real">>,
     <<<<"input", "synth", "moving_obstacle">>, "bool">>,
     <<<<"input", "synth", "obstacle_speed_mps">>, "real">>,
     <<<<"input", "frame_dir", "path">>, "string">>,
     <<<<"input", "frame_dir", "loop">>, "bool">>,
     <<<<"input", "frame_dir", "fps">>, "real">>,
     <<<<"out_dir_bytes">>, "string">>,
     <<<<"output", "heartbeat_period_s">>, "int">> >>

\* The value of the field at a path, and the configuration with another
\* value there.
RECURSIVE GetAt(_, _)
GetAt(rec, path) ==
  IF path = <<>> THEN rec ELSE GetAt(rec[Head(path)], Tail(path))

RECURSIVE SetAt(_, _, _)
SetAt(rec, path, v) ==
  IF path = <<>> THEN v
  ELSE [rec EXCEPT ![Head(path)] = SetAt(rec[Head(path)], Tail(path), v)]

\* Other values of a field: for an integer also -1 (all bytes 255), for a
\* string also the empty one and one longer by a byte, for a float or
\* double another bit pattern.
OtherValues(kind, v) ==
  CASE kind = "mode"      -> {"kReplay", "kLive"} \ {v}
    [] kind = "string"    -> {<<>>, Append(v, 97)} \ {v}
    [] kind = "int"       -> {v + 1, -1}
    [] kind = "bool"      -> {~v}
    [] kind = "real"      -> {[v EXCEPT ![1] = (v[1] + 1) % 256]}
    [] kind = "vec3"      -> {[v EXCEPT !.z = F32One]}
    [] kind = "transform" -> {[v EXCEPT ![4] = F32One]}

\* The configurations that are hashed: the default one and every one that
\* differs from it in one field.
Configs ==
  {DefaultConfig} \cup
  UNION {{SetAt(DefaultConfig, ConfigFields[i][1], v) :
            v \in OtherValues(ConfigFields[i][2],
                              GetAt(DefaultConfig, ConfigFields[i][1]))} :
         i \in DOMAIN ConfigFields}

\* compute_calibration_hash up to the last add
CalibrationHasher(calib) ==
  add_transform(
    add_transform(
      add_string(add_string(Fnv1a64Init, calib.calibration_path),
                 calib.calibration_version),
      calib.T_node_lidar),
    calib.T_site_node)

\* compute_config_hash up to the last add: the adds of each group of the
\* function, in the order of the groups.
ConfigHasher(cfg) ==
  LET HighLevel(s) == add_string(add_mode(s, cfg.mode), cfg.node_id)
      Frames(s) ==
        add_string(add_string(add_string(s, cfg.frames.lidar_frame),
                              cfg.frames.node_frame),
                   cfg.frames.site_frame)
      Calibration(s) ==
        add_transform(
          add_transform(
            add_string(add_string(s, cfg.calibration.calibration_path),
                       cfg.calibration.calibration_version),
            cfg.calibration.T_node_lidar),
          cfg.calibration.T_site_node)
      Baseline(s) ==
        add_i64(add_i64(s, cfg.baseline.capture_duration_ns),
                cfg.baseline.warmup_duration_ns)
      Mapping(s) ==
        add_i32(
          add_bool(
            add_float(
              add_float(
                add_aabb(
                  add_i32(add_float(s, cfg.mapping.voxel_size_m),
                          cfg.mapping.block_size_vox),
                  [min |-> cfg.mapping.roi.min, max |-> cfg.mapping.roi.max]),
                cfg.mapping.min_range_m),
              cfg.mapping.max_range_m),
            cfg.mapping.use_intensity),
          cfg.mapping.integrate_hz)
      Budgets(s) ==
        add_float(add_i32(add_i64(s, cfg.budgets.max_points_per_sec),
                          cfg.budgets.target_fps),
                  cfg.budgets.downsample_voxel_m)
      Change(s) ==
        add_bool(
          add_float(
            add_float(
              add_float(add_i64(s, cfg.change.persistence_ns),
                        cfg.change.min_cluster_volume_m3),
              cfg.change.min_aabb_edge_m),
            cfg.change.min_confidence),
          cfg.change.prefer_site_frame)
      Replay(s) ==
        add_bool(
          add_i64(
            add_i64(
              add_double(add_string(s, cfg.replay.dataset_path),
                         cfg.replay.time_scale),
              cfg.replay.start_offset_ns),
            cfg.replay.end_offset_ns),
          cfg.replay.loop)
      Input(s) ==
        add_double(
          add_i64(
            add_i32(
              add_double(add_string(s, cfg.input.type), cfg.input.tick_hz),
              cfg.input.heartbeat_every_s),
            cfg.input.max_ticks),
          cfg.input.max_run_s)
      InputSynth(s) ==
        add_float(
          add_bool(
            add_double(
              add_bool(
                add_i32(add_u32(s, cfg.input.synth.seed),
                        cfg.input.synth.num_points),
                cfg.input.synth.enable_obstacle),
              cfg.input.synth.obstacle_start_s),
            cfg.input.synth.moving_obstacle),
          cfg.input.synth.obstacle_speed_mps)
      InputFrameDir(s) ==
        add_double(add_bool(add_string(s, cfg.input.frame_dir.path),
                            cfg.input.frame_dir.loop),
                   cfg.input.frame_dir.fps)
      Output(s) ==
        add_i32(add_string(s, cfg.out_dir_bytes), cfg.output.heartbeat_period_s)
  IN  Output(InputFrameDir(InputSynth(Input(Replay(Change(Budgets(Mapping(
        Baseline(Calibration(Frames(HighLevel(Fnv1a64Init))))))))))))

\* Both functions tabulated over the modelled configurations: the member h
\* at the end, the bytes that were absorbed, and the result to_hex(h.h).
CalibrationHashTable ==
  [c \in {cfg.calibration : cfg \in Configs} |->
     The({Fnv1a64Digest(s) : s \in {CalibrationHasher(c)}})]

ConfigHashTable ==
  [c \in Configs |-> The({Fnv1a64Digest(s) : s \in {ConfigHasher(c)}})]

compute_calibration_hash(calib) == CalibrationHashTable[calib].hex

\* compute_config_hash that absorbs the wall clock time as well.
compute_config_hash_timed(cfg) ==
  to_hex(FnvFold(ConfigHashTable[cfg].h, LittleEndian(wall, 8), 1, 8))

compute_config_hash(cfg) == ConfigHashTable[cfg].hex

----------------------------------------------------------------------------
(* NodeRunner (src/core/model/node_runner.cpp:1-151) *)

KeepLast == 50

RunnerInit ==
  [cfg_ |-> DefaultConfig, config_path_ |-> StrA,
   t0_steady_ |-> 0, t0_wall_ns_ |-> 0, started_ |-> FALSE]

\* parse_events_epoch_ns_from_name, on the file name of a path: the number
\* of a run file, -1 for events_latest.jsonl and any other name.
parse_events_epoch_ns_from_name(p) ==
  IF p[2] = "latest" THEN -1
  ELSE IF p[2] # "events" THEN -1
  ELSE p[3]

\* prune_out_dir sorting oldest first, so that the newest files are removed.
prune_out_dir_oldest_first(fls, out_dir, keep_last, io) ==
  LET matching == {p \in DOMAIN fls :
                     p[1] = out_dir /\ parse_events_epoch_ns_from_name(p) >= 0}
      older(p) == {q \in matching : parse_events_epoch_ns_from_name(q) <
                                    parse_events_epoch_ns_from_name(p)}
      doomed == {p \in matching : Cardinality(older(p)) >= keep_last /\ io.rm}
  IN  IF ~io.list THEN fls
      ELSE IF Cardinality(matching) <= keep_last THEN fls
      ELSE [p \in (DOMAIN fls) \ doomed |-> fls[p]]

\* prune_out_dir without the test of the file name: every file of the
\* directory is listed, those that are not run files with the key -1.
prune_out_dir_any_name(fls, out_dir, keep_last, io) ==
  LET matching == {p \in DOMAIN fls : p[1] = out_dir}
      newer(p) == {q \in matching : parse_events_epoch_ns_from_name(q) >
                                    parse_events_epoch_ns_from_name(p)}
      doomed == {p \in matching : Cardinality(newer(p)) >= keep_last /\ io.rm}
  IN  IF ~io.list THEN fls
      ELSE IF Cardinality(matching) <= keep_last THEN fls
      ELSE [p \in (DOMAIN fls) \ doomed |-> fls[p]]

\* prune_out_dir(out_dir, keep_last): nothing happens when the listing
\* fails or at most keep_last run files exist; otherwise the files after
\* the keep_last newest are removed, a failed removal being skipped.
prune_out_dir(fls, out_dir, keep_last, io) ==
  LET matching == {p \in DOMAIN fls :
                     p[1] = out_dir /\ parse_events_epoch_ns_from_name(p) >= 0}
      newer(p) == {q \in matching : parse_events_epoch_ns_from_name(q) >
                                    parse_events_epoch_ns_from_name(p)}
      doomed == {p \in matching : Cardinality(newer(p)) >= keep_last /\ io.rm}
  IN  IF ~io.list THEN fls
      ELSE IF Cardinality(matching) <= keep_last THEN fls
      ELSE [p \in (DOMAIN fls) \ doomed |-> fls[p]]

\* since_start_ns() measured on the wall clock.
since_start_ns_wall(rn, now) ==
  IF ~rn.started_ THEN 0 ELSE wall - rn.t0_wall_ns_

\* since_start_ns(), given the reading of the steady clock
since_start_ns(rn, now) ==
  IF ~rn.started_ THEN 0 ELSE now - rn.t0_steady_

\* The range-for of prune_out_dir advances the directory_iterator with
\* operator++, which throws filesystem_error when reading the next entry
\* fails; that happens before anything is removed.
prune_out_dir_throws(fls, out_dir, io) ==
  /\ \E p \in DOMAIN fls : p[1] = out_dir
  /\ io.list
  /\ ~io.listNext

\* A RunInfo whose calibration_hash is computed from the whole
\* configuration.
StartRunInfoCalibrationOfConfig(rn) ==
  [node_id |-> rn.cfg_.node_id, config_path |-> rn.config_path_,
   out_dir |-> rn.cfg_.out_dir,
   config_hash |-> compute_config_hash(rn.cfg_),
   calibration_hash |-> compute_config_hash(rn.cfg_),
   start_time_ns |-> 0, wall_start_time_ns |-> rn.t0_wall_ns_]

\* The RunInfo that start() fills in.
StartRunInfo(rn) ==
  [node_id |-> rn.cfg_.node_id, config_path |-> rn.config_path_,
   out_dir |-> rn.cfg_.out_dir,
   config_hash |-> compute_config_hash(rn.cfg_),
   calibration_hash |-> compute_calibration_hash(rn.cfg_.calibration),
   start_time_ns |-> 0, wall_start_time_ns |-> rn.t0_wall_ns_]

\* start(sink)
RunnerStart(rn, sk, fls, now, wallNow, io) ==
  LET pruned == prune_out_dir(fls, rn.cfg_.out_dir, KeepLast, io)
      rn2 == [rn EXCEPT !.t0_steady_ = now, !.t0_wall_ns_ = wallNow, !.started_ = TRUE]
      run == StartRunInfo(rn2)
      o  == SinkOpen(sk, pruned, run, io)
  IN  IF prune_out_dir_throws(fls, rn.cfg_.out_dir, io)
        THEN [runner |-> rn, sink |-> sk, files |-> fls, status |-> Thrown,
              run |-> run]
        ELSE [runner |-> rn2, sink |-> o.sink, files |-> o.files,
              status |-> o.status, run |-> run]

\* emit_heartbeat_at(sink, t_ns, message)
RunnerEmitHeartbeatAt(sk, fls, t_ns, wallNow, message, io) ==
  SinkEmit(sk, fls, [type |-> "heartbeat", t_ns |-> t_ns, t_wall_ns |-> wallNow,
                     message |-> message], io)

\* emit_heartbeat(sink, message)
RunnerEmitHeartbeat(rn, sk, fls, now, wallNow, message, io) ==
  RunnerEmitHeartbeatAt(sk, fls, since_start_ns(rn, now), wallNow, message, io)

\* An emit_event that reports OK and writes nothing.
RunnerEmitEventDropped(rn, sk, fls, now, wallNow, type, message, io) ==
  [sink |-> sk, files |-> fls, status |-> kOk]

\* emit_event(sink, type, message)
RunnerEmitEvent(rn, sk, fls, now, wallNow, type, message, io) ==
  SinkEmit(sk, fls, [type |-> type, t_ns |-> since_start_ns(rn, now),
                     t_wall_ns |-> wallNow, message |-> message], io)

\* stop() that returns when the flush fails.
RunnerStopChecksFlush(rn, sk, fls, io) ==
  LET fl == SinkFlush(sk, fls, io)
  IN  IF fl.status # kOk
        THEN [runner |-> rn, sink |-> fl.sink, files |-> fl.files, flushed |-> fl.status]
        ELSE [runner |-> [rn EXCEPT !.started_ = FALSE],
              sink   |-> SinkClose(fl.sink),
              files  |-> fl.files,
              flushed |-> fl.status]

\* stop(sink): the status of the flush is dropped.
RunnerStop(rn, sk, fls, io) ==
  LET fl == SinkFlush(sk, fls, io)
  IN  [runner |-> [rn EXCEPT !.started_ = FALSE],
       sink   |-> SinkClose(fl.sink),
       files  |-> fl.files,
       flushed |-> fl.status]

----------------------------------------------------------------------------
(* FrameDirSource (src/adapters/frame_dir/frame_dir_source.cpp): the       *)
(* reader that lists its directory at open.  File names are byte strings;  *)
(* a frame is [t_ns, frame_id, npoints].                                   *)

\* operator< taking each byte as a signed char
RECURSIVE LexLessSigned(_, _)
LexLessSigned(a, b) ==
  LET sc(x) == IF x >= 128 THEN x - 256 ELSE x
  IN  IF b = <<>> THEN FALSE
      ELSE IF a = <<>> THEN TRUE
      ELSE IF Head(a) # Head(b) THEN sc(Head(a)) < sc(Head(b))
      ELSE LexLessSigned(Tail(a), Tail(b))

\* std::string operator< : byte-wise, a proper prefix sorting first.
RECURSIVE LexLess(_, _)
LexLess(a, b) ==
  IF b = <<>> THEN FALSE
  ELSE IF a = <<>> THEN TRUE
  ELSE IF Head(a) # Head(b) THEN Head(a) < Head(b)
  ELSE LexLess(Tail(a), Tail(b))

\* path::extension() == ".bin"
HasBinExtension(name) ==
  Len(name) > 4 /\ SubSeq(name, Len(name) - 3, Len(name)) = <<46, 98, 105, 110>>

\* hz_to_period_ns(10.0) in nanoseconds
FramePeriodNs == 100000000

NoFrame == [t_ns |-> 0, frame_id |-> <<>>, npoints |-> -1]

FrameDirInit(cfg) ==
  [cfg_ |-> cfg, opened_ |-> FALSE, frame_ids_ |-> <<>>, idx_ |-> 0, emitted_ |-> 0]

\* close() that leaves opened_ set
FrameDirCloseKeepsOpen(s) ==
  [s EXCEPT !.frame_ids_ = <<>>, !.idx_ = 0, !.emitted_ = 0]

\* close()
FrameDirClose(s) ==
  [s EXCEPT !.opened_ = FALSE, !.frame_ids_ = <<>>, !.idx_ = 0, !.emitted_ = 0]

\* load_file_list(), given the order in which the directory is listed:
\* the regular files with extension .bin, sorted by file name.  A listing
\* that cannot be opened yields no entry; advancing it with operator++
\* throws when that fails.
load_file_list(dir, listing, io) ==
  LET entries == SelectSeq(listing,
                   LAMBDA n : dir[n].regular /\ HasBinExtension(n))
      sorted  == SortSeq(entries, LexLess)
  IN  IF ~io.list THEN [status |-> kNotFound, frame_ids |-> <<>>]
      ELSE IF ~io.listNext /\ listing # <<>>
        THEN [status |-> Thrown, frame_ids |-> <<>>]
      ELSE IF sorted = <<>> THEN [status |-> kNotFound, frame_ids |-> <<>>]
      ELSE [status |-> kOk, frame_ids |-> sorted]

\* open()
FrameDirOpen(s, dir, listing, io) ==
  LET c == FrameDirClose(s)
      l == load_file_list(dir, listing, io)
  IN  IF s.cfg_.path = "" THEN [src |-> s, status |-> kInvalidArgument]
      ELSE IF l.status # kOk THEN [src |-> c, status |-> l.status]
      ELSE [src |-> [c EXCEPT !.frame_ids_ = l.frame_ids, !.opened_ = TRUE],
            status |-> kOk]

\* read_frame(path, frame_id) with the record stride in bytes
read_frame(dir, name, stride, io) ==
  LET nbytes == dir[name].size
  IN  IF ~io.openF THEN [status |-> kIoError, frame |-> NoFrame]
      ELSE IF nbytes <= 0 \/ nbytes % stride # 0
        THEN [status |-> kCorruptData, frame |-> NoFrame]
      ELSE IF ~io.rd THEN [status |-> kIoError, frame |-> NoFrame]
      ELSE [status |-> kOk,
            frame  |-> [t_ns |-> 0, frame_id |-> name, npoints |-> nbytes \div stride]]

\* next() taking every end of the list as the point to start over
FrameDirNextWraps(s, dir, io) ==
  LET wrap == s.idx_ >= Len(s.frame_ids_)
      idx  == IF wrap THEN 0 ELSE s.idx_
      r    == read_frame(dir, s.frame_ids_[idx + 1], 16, io)
      s1   == [s EXCEPT !.idx_ = idx]
  IN  IF ~s.opened_
        THEN [src |-> s, status |-> kInvalidArgument, frame |-> NoFrame]
      ELSE IF s.frame_ids_ = <<>>
        THEN [src |-> s, status |-> kOutOfRange, frame |-> NoFrame]
      ELSE IF r.status # kOk
        THEN [src |-> s1, status |-> r.status, frame |-> NoFrame]
      ELSE [src    |-> [s1 EXCEPT !.idx_ = idx + 1, !.emitted_ = s.emitted_ + 1],
            status |-> kOk,
            frame  |-> [r.frame EXCEPT !.t_ns = s.emitted_ * FramePeriodNs]]

\* next() that starts its timestamps over when it wraps
FrameDirNextRestartsTime(s, dir, io) ==
  LET wrap == s.idx_ >= Len(s.frame_ids_)
      idx  == IF wrap THEN 0 ELSE s.idx_
      n    == IF wrap THEN 0 ELSE s.emitted_
      r    == read_frame(dir, s.frame_ids_[idx + 1], 16, io)
      s1   == [s EXCEPT !.idx_ = idx]
  IN  IF ~s.opened_
        THEN [src |-> s, status |-> kInvalidArgument, frame |-> NoFrame]
      ELSE IF s.frame_ids_ = <<>>
        THEN [src |-> s, status |-> kOutOfRange, frame |-> NoFrame]
      ELSE IF wrap /\ ~s.cfg_.loop
        THEN [src |-> s, status |-> kOutOfRange, frame |-> NoFrame]
      ELSE IF r.status # kOk
        THEN [src |-> s1, status |-> r.status, frame |-> NoFrame]
      ELSE [src    |-> [s1 EXCEPT !.idx_ = idx + 1, !.emitted_ = n + 1],
            status |-> kOk,
            frame  |-> [r.frame EXCEPT !.t_ns = n * FramePeriodNs]]

\* next() that moves past a file it could not read
FrameDirNextSkipsFailed(s, dir, io) ==
  LET wrap == s.idx_ >= Len(s.frame_ids_)
      idx  == IF wrap THEN 0 ELSE s.idx_
      r    == read_frame(dir, s.frame_ids_[idx + 1], 16, io)
  IN  IF ~s.opened_
        THEN [src |-> s, status |-> kInvalidArgument, frame |-> NoFrame]
      ELSE IF s.frame_ids_ = <<>>
        THEN [src |-> s, status |-> kOutOfRange, frame |-> NoFrame]
      ELSE IF wrap /\ ~s.cfg_.loop
        THEN [src |-> s, status |-> kOutOfRange, frame |-> NoFrame]
      ELSE IF r.status # kOk
        THEN [src |-> [s EXCEPT !.idx_ = idx + 1], status |-> r.status,
              frame |-> NoFrame]
      ELSE [src    |-> [s EXCEPT !.idx_ = idx + 1, !.emitted_ = s.emitted_ + 1],
            status |-> kOk,
            frame  |-> [r.frame EXCEPT !.t_ns = s.emitted_ * FramePeriodNs]]

\* next()
FrameDirNext(s, dir, io) ==
  LET wrap == s.idx_ >= Len(s.frame_ids_)
      idx  == IF wrap THEN 0 ELSE s.idx_
      r    == read_frame(dir, s.frame_ids_[idx + 1], 16, io)
      s1   == [s EXCEPT !.idx_ = idx]
  IN  IF ~s.opened_
        THEN [src |-> s, status |-> kInvalidArgument, frame |-> NoFrame]
      ELSE IF s.frame_ids_ = <<>>
        THEN [src |-> s, status |-> kOutOfRange, frame |-> NoFrame]
      ELSE IF wrap /\ ~s.cfg_.loop
        THEN [src |-> s, status |-> kOutOfRange, frame |-> NoFrame]
      ELSE IF r.status # kOk
        THEN [src |-> s1, status |-> r.status, frame |-> NoFrame]
      ELSE [src    |-> [s1 EXCEPT !.idx_ = idx + 1, !.emitted_ = s.emitted_ + 1],
            status |-> kOk,
            frame  |-> [r.frame EXCEPT !.t_ns = s.emitted_ * FramePeriodNs]]

----------------------------------------------------------------------------
(* FrameDirSource (src/unnamed/part_001): the reader that looks for        *)
(* <frames_subdir>/<6-digit index>.bin at every next(); here without a     *)
(* timestamps file.                                                        *)

\* frame_filename(idx): the index in six decimal digits, then ".bin"
frame_filename(idx) ==
  [i \in 1..6 |-> 48 + ((idx \div (10 ^ (6 - i))) % 10)] \o <<46, 98, 105, 110>>

FrameDirIdxInit(cfg) ==
  [cfg_ |-> cfg, opened_ |-> FALSE, timestamps_ns_ |-> <<>>, idx_ |-> 0]

\* open(): the optional timestamps file is absent
FrameDirIdxOpen(s) ==
  IF s.cfg_.path = "" THEN [src |-> s, status |-> kInvalidArgument]
  ELSE [src |-> [s EXCEPT !.timestamps_ns_ = <<>>, !.opened_ = TRUE, !.idx_ = 0],
        status |-> kOk]

\* reset()
FrameDirIdxReset(s) ==
  IF ~s.opened_ THEN [src |-> s, status |-> kInvalidArgument]
  ELSE [src |-> [s EXCEPT !.idx_ = 0], status |-> kOk]

\* next(out) with out not null
FrameDirIdxNext(s, dir, io) ==
  LET fname == frame_filename(s.idx_)
      r     == read_frame(dir, fname, 12, io)
      t_ns  == IF s.idx_ < Len(s.timestamps_ns_)
                 THEN s.timestamps_ns_[s.idx_ + 1]
                 ELSE s.idx_ * FramePeriodNs
  IN  IF ~s.opened_
        THEN [src |-> s, status |-> kInvalidArgument, frame |-> NoFrame]
      ELSE IF fname \notin DOMAIN dir
        THEN [src |-> s, status |-> kOutOfRange, frame |-> NoFrame]
      ELSE IF r.status # kOk
        THEN [src |-> s, status |-> r.status, frame |-> NoFrame]
      ELSE [src    |-> [s EXCEPT !.idx_ = s.idx_ + 1],
            status |-> kOk,
            frame  |-> [r.frame EXCEPT !.t_ns = t_ns]]

----------------------------------------------------------------------------
(* SynthFrameSource (src/adapters/synth/synth_frame_source.cpp).  Times    *)
(* are in milliseconds: the rates and thresholds used are whole numbers of *)
(* milliseconds, on which the code's floating-point comparisons agree with *)
(* the integer ones.  A frame's points are counted per surface.            *)

\* hz_to_period_ns(hz): llround(1e9 / hz) ns, or the 10 Hz fallback
hz_to_period_ns(hz) == IF hz <= 0 THEN 100 ELSE 1000 \div hz

\* append_box_surface_points(..., grid_n): six points per grid cell
append_box_surface_points(grid_n) ==
  LET n == IF grid_n < 2 THEN 2 ELSE grid_n IN 6 * n * n

SynthInit(cfg) ==
  [cfg_ |-> cfg, tick_period_ns_ |-> hz_to_period_ns(cfg.tick_hz), tick_ |-> 0]

\* reset() that leaves the tick counter alone
SynthResetKeepsTick(s) == [src |-> s, status |-> kOk]

\* reset()
SynthReset(s) == [src |-> [s EXCEPT !.tick_ = 0], status |-> kOk]

\* next(out) showing the obstacle from obstacle_start_s on, baseline or not
SynthNextNoBaseline(s) ==
  LET t_ns        == s.tick_ * s.tick_period_ns_
      n           == IF s.cfg_.floor_grid_n < 2 THEN 2 ELSE s.cfg_.floor_grid_n
      obstacle_on == s.cfg_.obstacle_enabled /\ t_ns >= s.cfg_.obstacle_start_s
  IN  [src    |-> [s EXCEPT !.tick_ = s.tick_ + 1],
       status |-> kOk,
       frame  |-> [t_ns |-> t_ns, frame_id |-> "synth", floor |-> n * n,
                   obstacle |-> IF obstacle_on THEN append_box_surface_points(10)
                                ELSE 0]]

\* next(out) with out not null
SynthNext(s) ==
  LET t_ns        == s.tick_ * s.tick_period_ns_
      n           == IF s.cfg_.floor_grid_n < 2 THEN 2 ELSE s.cfg_.floor_grid_n
      in_baseline == t_ns < s.cfg_.baseline_s
      obstacle_on == s.cfg_.obstacle_enabled /\ ~in_baseline
                       /\ t_ns >= s.cfg_.obstacle_start_s
  IN  [src    |-> [s EXCEPT !.tick_ = s.tick_ + 1],
       status |-> kOk,
       frame  |-> [t_ns |-> t_ns, frame_id |-> "synth", floor |-> n * n,
                   obstacle |-> IF obstacle_on THEN append_box_surface_points(10)
                                ELSE 0]]

----------------------------------------------------------------------------
(* Inputs *)

Dirs == {"out"}

NodeIds == {StrN, StrNewline}

HashA == <<48, 48, 48, 49>>
HashB == <<48, 48, 48, 50>>
HashC == <<48, 48, 48, 55>>

\* The RunInfo values given to open: two node ids, each with its own
\* configuration fingerprint, at every wall-clock start time.
RunInfos ==
  {[node_id |-> n, config_path |-> StrA, out_dir |-> d,
    config_hash |-> IF n = StrN THEN HashA ELSE HashB, calibration_hash |-> HashC,
    start_time_ns |-> 0, wall_start_time_ns |-> w] :
     n \in NodeIds, d \in Dirs, w \in 0..MaxWall}

NoRun ==
  [node_id |-> <<>>, config_path |-> <<>>, out_dir |-> "",
   config_hash |-> <<>>, calibration_hash |-> <<>>,
   start_time_ns |-> 0, wall_start_time_ns |-> 0]

Messages == {StrEmpty, StrQuote, StrNewline}

Events ==
  [type : {"heartbeat"}, t_ns : {1}, t_wall_ns : {0}, message : Messages]

\* hist: the number of open (start) and emit calls made; whether the last
\* open (start) returned OK with no close (stop) since; the RunInfo of the
\* last open call; the number of emits that returned OK since then; the
\* RunInfo and the two paths of the last open that returned OK; whether
\* the last open was called on a sink that was open.
HistInit ==
  [opens |-> 0, emits |-> 0, session |-> FALSE, run |-> NoRun, okEmits |-> 0,
   okRun |-> NoRun, okPath |-> NoPath, okLatest |-> NoPath, reopen |-> FALSE]

HistOpen(h, run, status, sk, wasOpen) ==
  [opens    |-> h.opens + 1,
   emits    |-> h.emits,
   reopen   |-> wasOpen,
   session  |-> (status = kOk),
   run      |-> run,
   okEmits  |-> 0,
   okRun    |-> IF status = kOk THEN run ELSE h.okRun,
   okPath   |-> IF status = kOk THEN sk.path_ ELSE h.okPath,
   okLatest |-> IF status = kOk THEN sk.latest_path_ ELSE h.okLatest]

HistEmit(h, status) ==
  [h EXCEPT !.emits = @ + 1, !.okEmits = IF status = kOk THEN @ + 1 ELSE @]

HistClose(h) == [h EXCEPT !.session = FALSE]

EscInit == [input |-> <<>>, output |-> <<>>, done |-> FALSE]

\* No frame source is in use: an empty directory, directory readers with
\* no path, the synthetic source as constructed by default.
FrameCfgs == [path : {"", "frames"}, loop : BOOLEAN]

SynthDefault ==
  [tick_hz |-> 10, floor_grid_n |-> 40, baseline_s |-> 5000,
   obstacle_start_s |-> 8000, obstacle_enabled |-> TRUE]

OutIdle == [op |-> "new", status |-> kOk, frame |-> NoFrame]

AdaptersIdle ==
  /\ fdir = <<>>
  /\ fsrc = FrameDirInit([path |-> "", loop |-> FALSE])
  /\ isrc = FrameDirIdxInit([path |-> "", loop |-> FALSE])
  /\ synth = SynthInit(SynthDefault)
  /\ out = OutIdle
  /\ seen = <<>>

CoreIdle ==
  /\ files = <<>>
  /\ sink = SinkInit
  /\ lsink = LegacySinkInit
  /\ runner = RunnerInit
  /\ steady = 0
  /\ wall = 0
  /\ ret = [op |-> "new", status |-> kOk, iofail |-> FALSE]
  /\ hist = HistInit
  /\ esc = EscInit

Init ==
  /\ files = <<>>
  /\ sink = SinkInit
  /\ lsink = LegacySinkInit
  /\ runner = RunnerInit
  /\ steady = 0
  /\ wall = 0
  /\ ret = [op |-> "new", status |-> kOk, iofail |-> FALSE]
  /\ hist = HistInit
  /\ esc = EscInit
  /\ AdaptersIdle

\* A stream of the open sink that is not good after a call: the call's
\* write or flush on it failed.
StreamFailed(sk) == sk.open_ /\ (~sk.f_.good \/ ~sk.latest_.good)

----------------------------------------------------------------------------
(* Specification Spec: calls on the two-file sink *)

Open(run, io) ==
  /\ hist.opens < MaxOpens
  /\ LET r == SinkOpen(sink, files, run, io)
     IN  /\ sink' = r.sink
         /\ files' = r.files
         /\ ret' = [op |-> "open", status |-> r.status, iofail |-> StreamFailed(r.sink)]
         /\ hist' = HistOpen(hist, run, r.status, r.sink, sink.open_)
  /\ UNCHANGED <<lsink, runner, steady, wall, esc, adapterVars>>

Emit(e, io) ==
  /\ hist.emits < MaxEmits
  /\ LET r == SinkEmit(sink, files, e, io)
     IN  /\ sink' = r.sink
         /\ files' = r.files
         /\ ret' = [op |-> "emit", status |-> r.status, iofail |-> StreamFailed(r.sink)]
         /\ hist' = HistEmit(hist, r.status)
  /\ UNCHANGED <<lsink, runner, steady, wall, esc, adapterVars>>

Flush(io) ==
  /\ LET r == SinkFlush(sink, files, io)
     IN  /\ sink' = r.sink
         /\ files' = r.files
         /\ ret' = [op |-> "flush", status |-> r.status, iofail |-> StreamFailed(r.sink)]
  /\ UNCHANGED <<lsink, runner, steady, wall, hist, esc, adapterVars>>

Close ==
  /\ sink' = SinkClose(sink)
  /\ ret' = [op |-> "close", status |-> kOk, iofail |-> FALSE]
  /\ hist' = HistClose(hist)
  /\ UNCHANGED <<files, lsink, runner, steady, wall, esc, adapterVars>>

Next ==
  \/ \E run \in RunInfos, io \in IoFor({"mkdir", "openF", "openL", "wF", "wL", "flF", "flL"}) :
        Open(run, io)
  \/ \E e \in Events, io \in IoFor({"wF", "wL"}) : Emit(e, io)
  \/ \E io \in IoFor({"flF", "flL"}) : Flush(io)
  \/ Close

Spec == Init /\ [][Next]_vars

----------------------------------------------------------------------------
(* Specification SpecLegacy: calls on the single-file sink *)

LegacyRunInfos ==
  {[node_id |-> n, config_path |-> StrA, out_dir |-> d,
    config_hash |-> IF n = StrN THEN HashA ELSE HashB, calibration_hash |-> HashC,
    start_time |-> w] :
     n \in NodeIds, d \in Dirs, w \in 0..MaxWall}

LegacyEvents ==
  [type : {"heartbeat"}, timestamp : {1}, frame : {StrEmpty, StrA}, aabb : {0},
   message : Messages, confidence : {0, 1}, persistence_s : {0}]

LegacyStreamFailed(sk) == sk.ofs_.is_open /\ ~sk.ofs_.good

LegacyOpen(run, io) ==
  /\ hist.opens < MaxOpens
  /\ LET r == LegacySinkOpen(lsink, files, run, io)
     IN  /\ lsink' = r.sink
         /\ files' = r.files
         /\ ret' = [op |-> "open", status |-> r.status,
                    iofail |-> LegacyStreamFailed(r.sink)]
         /\ hist' = HistOpen(hist, NoRun, r.status,
                             [path_ |-> r.sink.path_, latest_path_ |-> NoPath],
                             lsink.ofs_.is_open)
  /\ UNCHANGED <<sink, runner, steady, wall, esc, adapterVars>>

LegacyEmit(e, io) ==
  /\ hist.emits < MaxEmits
  /\ LET r == LegacySinkEmit(lsink, files, e, io)
     IN  /\ lsink' = r.sink
         /\ files' = r.files
         /\ ret' = [op |-> "emit", status |-> r.status,
                    iofail |-> LegacyStreamFailed(r.sink)]
         /\ hist' = HistEmit(hist, r.status)
  /\ UNCHANGED <<sink, runner, steady, wall, esc, adapterVars>>

LegacyFlush(io) ==
  /\ LET r == LegacySinkFlush(lsink, files, io)
     IN  /\ lsink' = r.sink
         /\ files' = r.files
         /\ ret' = [op |-> "flush", status |-> r.status,
                    iofail |-> LegacyStreamFailed(r.sink)]
  /\ UNCHANGED <<sink, runner, steady, wall, hist, esc, adapterVars>>

LegacyClose ==
  /\ lsink' = LegacySinkClose(lsink)
  /\ ret' = [op |-> "close", status |-> kOk, iofail |-> FALSE]
  /\ hist' = HistClose(hist)
  /\ UNCHANGED <<files, sink, runner, steady, wall, esc, adapterVars>>

NextLegacy ==
  \/ \E run \in LegacyRunInfos, io \in IoFor({"mkdir", "openF", "wF", "flF"}) :
        LegacyOpen(run, io)
  \/ \E e \in LegacyEvents, io \in IoFor({"wF"}) : LegacyEmit(e, io)
  \/ \E io \in IoFor({"flF"}) : LegacyFlush(io)
  \/ LegacyClose

SpecLegacy == Init /\ [][NextLegacy]_vars

----------------------------------------------------------------------------
(* Specification SpecEscape: escape_json applied to a byte string *)

EscAlphabet == {0, 8, 9, 10, 12, 13, 31, 32, 34, 92, 110, 117, 255}

EscInputs == UNION {[1..n -> EscAlphabet] : n \in 0..MaxEscLen}

InitEscape ==
  /\ files = <<>>
  /\ sink = SinkInit
  /\ lsink = LegacySinkInit
  /\ runner = RunnerInit
  /\ steady = 0
  /\ wall = 0
  /\ ret = [op |-> "new", status |-> kOk, iofail |-> FALSE]
  /\ hist = HistInit
  /\ esc \in {[input |-> s, output |-> <<>>, done |-> FALSE] : s \in EscInputs}
  /\ AdaptersIdle

Escape ==
  /\ ~esc.done
  /\ esc' = [esc EXCEPT !.output = escape_json(esc.input), !.done = TRUE]
  /\ UNCHANGED <<files, sink, lsink, runner, steady, wall, ret, hist, adapterVars>>

NextEscape == Escape

SpecEscape == InitEscape /\ [][NextEscape]_vars

----------------------------------------------------------------------------
(* Specification SpecRunner: the runner driving the two-file sink, with    *)
(* both clocks moving                                                      *)

RunnerMessages == {StrA}

\* The listing and every removal of pruning succeed.
PruneSucceeds(io) == io.list /\ io.listNext /\ io.rm

Start(io) ==
  /\ hist.opens < MaxOpens
  /\ LET r == RunnerStart(runner, sink, files, steady, wall, io)
     IN  /\ runner' = r.runner
         /\ sink' = r.sink
         /\ files' = r.files
         /\ ret' = [op |-> "start", status |-> r.status,
                    iofail |-> StreamFailed(r.sink), pruned |-> PruneSucceeds(io)]
         /\ hist' = IF r.status = Thrown
                       THEN [hist EXCEPT !.opens = @ + 1]
                       ELSE HistOpen(hist, r.run, r.status, r.sink, sink.open_)
  /\ UNCHANGED <<lsink, steady, wall, esc, adapterVars>>

EmitHeartbeat(message, io) ==
  /\ hist.emits < MaxEmits
  /\ LET r == RunnerEmitHeartbeat(runner, sink, files, steady, wall, message, io)
     IN  /\ sink' = r.sink
         /\ files' = r.files
         /\ ret' = [op |-> "emit_heartbeat", status |-> r.status,
                    iofail |-> StreamFailed(r.sink)]
         /\ hist' = HistEmit(hist, r.status)
  /\ UNCHANGED <<lsink, runner, steady, wall, esc, adapterVars>>

EmitEvent(type, message, io) ==
  /\ hist.emits < MaxEmits
  /\ LET r == RunnerEmitEvent(runner, sink, files, steady, wall, type, message, io)
     IN  /\ sink' = r.sink
         /\ files' = r.files
         /\ ret' = [op |-> "emit_event", status |-> r.status,
                    iofail |-> StreamFailed(r.sink)]
         /\ hist' = HistEmit(hist, r.status)
  /\ UNCHANGED <<lsink, runner, steady, wall, esc, adapterVars>>

Stop(io) ==
  /\ LET r == RunnerStop(runner, sink, files, io)
     IN  /\ runner' = r.runner
         /\ sink' = r.sink
         /\ files' = r.files
         /\ ret' = [op |-> "stop", status |-> kOk, iofail |-> (r.flushed # kOk)]
  /\ hist' = HistClose(hist)
  /\ UNCHANGED <<lsink, steady, wall, esc, adapterVars>>

AdvanceSteady ==
  /\ steady < MaxSteady
  /\ steady' = steady + 1
  /\ UNCHANGED <<files, sink, lsink, runner, wall, ret, hist, esc, adapterVars>>

SetWall(w) ==
  /\ w # wall
  /\ wall' = w
  /\ UNCHANGED <<files, sink, lsink, runner, steady, ret, hist, esc, adapterVars>>

\* The failures the environment injects here: the latest file cannot be
\* opened, a write to either file fails, a flush of either file fails in stop.
NextRunner ==
  \/ \E io \in IoFor({"openL", "wF"}) : Start(io)
  \/ \E m \in RunnerMessages, io \in IoFor({"wL"}) : EmitHeartbeat(m, io)
  \/ \E m \in RunnerMessages, io \in IoFor({"wF"}) : EmitEvent("frame_stats", m, io)
  \/ \E io \in IoFor({"flF", "flL"}) : Stop(io)
  \/ AdvanceSteady
  \/ \E w \in 0..MaxWall : SetWall(w)

SpecRunner == Init /\ [][NextRunner]_vars

----------------------------------------------------------------------------
(* Specification SpecPrune: the runner started in an output directory that *)
(* already holds the files of earlier runs                                 *)

\* A file of the output directory that is not named like a run file.
OtherPath(out_dir) == <<out_dir, "other", 0>>

\* The files of the output directory that are not named like a run file;
\* file_name gives their names.
OtherPaths(out_dir) == {<<out_dir, "other", i>> : i \in 0..5}

\* The timestamps of the run files the directory can hold at the start:
\* up to MaxExtraRuns more than the retention count.
PriorRunKeys == 1..(KeepLast + MaxExtraRuns)

\* The directory holds all of them or all but one or two of the older and
\* of the newer ones; the oldest is always there.
GapKeys == (2..4) \cup ((KeepLast - 1)..(KeepLast + MaxExtraRuns))

PriorRunSets ==
  {PriorRunKeys} \cup {PriorRunKeys \ {a, b} : a, b \in GapKeys}

InitPrune ==
  /\ \E keys \in PriorRunSets :
       files = [p \in {PrimaryPath("out", k) : k \in keys}
                       \cup {LatestPath("out")} \cup OtherPaths("out") |-> <<>>]
  /\ sink = SinkInit
  /\ lsink = LegacySinkInit
  /\ runner = RunnerInit
  /\ steady = 0
  /\ wall = 0
  /\ ret = [op |-> "new", status |-> kOk, iofail |-> FALSE]
  /\ hist = HistInit
  /\ esc = EscInit
  /\ AdaptersIdle

\* The failures the environment injects here: the listing cannot be opened
\* or advanced, the removals fail, the primary file cannot be opened.
NextPrune ==
  \/ \E io \in IoFor({"list", "listNext", "rm", "openF"}) : Start(io)
  \/ \E io \in {IoAllOk} : Stop(io)
  \/ \E w \in 0..MaxWall : SetWall(w)

SpecPrune == InitPrune /\ [][NextPrune]_vars

----------------------------------------------------------------------------
(* Specification SpecFrameDir: calls on a directory reader of either kind, *)
(* over a directory that does not change while it is read                  *)

BinName(stem) == stem \o <<46, 98, 105, 110>>

\* Frame file names: three in the six-digit form, and names whose byte-wise
\* order differs from their numeric order ("10" before "9") or needs bytes
\* compared as unsigned ("a" before the byte 200).
FrameNames ==
  {frame_filename(0), frame_filename(1), frame_filename(2),
   BinName(<<49, 48>>), BinName(<<57>>), BinName(<<97>>), BinName(<<200>>)}

\* Entries that are not frame files: a regular file "9.txt" and a
\* subdirectory "d.bin".
TxtName == <<57, 46, 116, 120, 116>>
SubdirName == BinName(<<100>>)

\* Frame file sizes in bytes: GoodSize is a multiple of both record strides
\* (16 and 12); at most one file of the directory has another size.
GoodSize == 3 * 16
OddSizes == {0, 12, 16, 20}

FrameDirs ==
  {[n \in S \cup {TxtName, SubdirName} |->
      IF n = SubdirName THEN [regular |-> FALSE, size |-> 0]
      ELSE IF n = TxtName THEN [regular |-> TRUE, size |-> 16]
      ELSE [regular |-> TRUE, size |-> IF n = odd THEN sz ELSE GoodSize]] :
    S \in {T \in SUBSET FrameNames : Cardinality(T) <= MaxFrames},
    odd \in FrameNames \cup {<<>>}, sz \in OddSizes}

\* The orders in which the directory can be listed: the two other entries,
\* then the frame files in any order.
RECURSIVE Listings(_)
Listings(S) ==
  IF S = {} THEN {<<TxtName, SubdirName>>}
  ELSE UNION {{Append(l, n) : l \in Listings(S \ {n})} : n \in S}

InitFrameDir ==
  /\ CoreIdle
  /\ fdir \in FrameDirs
  /\ \E cfg \in FrameCfgs, lp \in BOOLEAN :
       /\ fsrc = FrameDirInit(cfg)
       /\ isrc = FrameDirIdxInit([path |-> IF cfg.path = "" THEN "frames" ELSE "",
                                  loop |-> lp])
  /\ synth = SynthInit(SynthDefault)
  /\ out = OutIdle
  /\ seen = <<>>

FdOpen(listing, io) ==
  /\ LET r == FrameDirOpen(fsrc, fdir, listing, io)
     IN  /\ fsrc' = r.src
         /\ out' = [op |-> "open", status |-> r.status, frame |-> NoFrame]
         /\ seen' = IF r.status = kInvalidArgument THEN seen ELSE <<>>
  /\ UNCHANGED <<coreVars, fdir, isrc, synth>>

FdNext(io) ==
  /\ fsrc.emitted_ < MaxPulls
  /\ LET r == FrameDirNext(fsrc, fdir, io)
     IN  /\ fsrc' = r.src
         /\ out' = [op |-> "next", status |-> r.status, frame |-> r.frame]
         /\ seen' = IF r.status = kOk THEN Append(seen, r.frame.frame_id) ELSE seen
  /\ UNCHANGED <<coreVars, fdir, isrc, synth>>

FdClose ==
  /\ fsrc' = FrameDirClose(fsrc)
  /\ out' = [op |-> "close", status |-> kOk, frame |-> NoFrame]
  /\ UNCHANGED <<coreVars, fdir, isrc, synth, seen>>

IdxOpen ==
  /\ LET r == FrameDirIdxOpen(isrc)
     IN  /\ isrc' = r.src
         /\ out' = [op |-> "idxOpen", status |-> r.status, frame |-> NoFrame]
         /\ seen' = IF r.status = kOk THEN <<>> ELSE seen
  /\ UNCHANGED <<coreVars, fdir, fsrc, synth>>

IdxReset ==
  /\ LET r == FrameDirIdxReset(isrc)
     IN  /\ isrc' = r.src
         /\ out' = [op |-> "idxReset", status |-> r.status, frame |-> NoFrame]
         /\ seen' = IF r.status = kOk THEN <<>> ELSE seen
  /\ UNCHANGED <<coreVars, fdir, fsrc, synth>>

IdxNext(io) ==
  /\ LET r == FrameDirIdxNext(isrc, fdir, io)
     IN  /\ isrc' = r.src
         /\ out' = [op |-> "idxNext", status |-> r.status, frame |-> r.frame]
         /\ seen' = IF r.status = kOk THEN Append(seen, r.frame.frame_id) ELSE seen
  /\ UNCHANGED <<coreVars, fdir, fsrc, synth>>

NextFrameDir ==
  \/ \E listing \in Listings({n \in DOMAIN fdir : n \in FrameNames}),
        io \in IoFor({"list", "listNext"}) : FdOpen(listing, io)
  \/ \E io \in IoFor({"openF", "rd"}) : FdNext(io)
  \/ FdClose
  \/ IdxOpen
  \/ IdxReset
  \/ \E io \in IoFor({"openF", "rd"}) : IdxNext(io)

SpecFrameDir == InitFrameDir /\ [][NextFrameDir]_vars

----------------------------------------------------------------------------
(* Specification SpecSynth: calls on the synthetic source.  Here seen     *)
(* holds the number of frames returned since construction or the last     *)
(* reset(), and whether reset() was called.                               *)

\* Rates in Hz (0 selects the fallback), floor grid sizes (1 is raised to
\* 2), and thresholds in milliseconds on both sides of each other.
SynthCfgs ==
  [tick_hz : {0, 1, 10}, floor_grid_n : {1, 40}, baseline_s : {0, 2000, 5000},
   obstacle_start_s : {0, 1000, 8000}, obstacle_enabled : BOOLEAN]

InitSynth ==
  /\ CoreIdle
  /\ fdir = <<>>
  /\ fsrc = FrameDirInit([path |-> "", loop |-> FALSE])
  /\ isrc = FrameDirIdxInit([path |-> "", loop |-> FALSE])
  /\ synth \in {SynthInit(c) : c \in SynthCfgs}
  /\ out = OutIdle
  /\ seen = [frames |-> 0, reset |-> FALSE]

SyNext ==
  /\ synth.tick_ < MaxTick
  /\ LET r == SynthNext(synth)
     IN  /\ synth' = r.src
         /\ out' = [op |-> "next", status |-> r.status, frame |-> r.frame]
         /\ seen' = IF r.status = kOk THEN [seen EXCEPT !.frames = @ + 1] ELSE seen
  /\ UNCHANGED <<coreVars, fdir, fsrc, isrc>>

SyReset ==
  /\ LET r == SynthReset(synth)
     IN  /\ synth' = r.src
         /\ out' = [op |-> "reset", status |-> r.status, frame |-> NoFrame]
         /\ seen' = IF r.status = kOk THEN [frames |-> 0, reset |-> TRUE] ELSE seen
  /\ UNCHANGED <<coreVars, fdir, fsrc, isrc>>

NextSynth == SyNext \/ SyReset

SpecSynth == InitSynth /\ [][NextSynth]_vars

----------------------------------------------------------------------------
(* Specification SpecHash: compute_config_hash and                         *)
(* compute_calibration_hash called directly, in any order, between the     *)
(* starts and stops of runners constructed with one of two configurations. *)
(* seen holds every result so far: the argument, the string returned, and  *)
(* for a direct call the bytes that were fed; a start contributes the two  *)
(* fingerprints found in the header of the run file it wrote.              *)

\* The configurations runners are constructed with.
RunnerCfgs ==
  {DefaultConfig,
   SetAt(DefaultConfig, <<"calibration", "calibration_version">>, <<>>)}

\* The arguments of the direct calls here: the configurations of the
\* runners, two more configurations, and their calibrations.
HashedCfgs ==
  RunnerCfgs \cup {SetAt(DefaultConfig, <<"mode">>, "kLive"),
                   SetAt(DefaultConfig, <<"calibration", "T_site_node">>,
                         [Identity EXCEPT ![4] = F32One])}

Calibrations == {cfg.calibration : cfg \in HashedCfgs}

\* The value of the first chunk of the given kind in a file.
HeaderValue(content, kind) ==
  LET I == {i \in 1..Len(content) : content[i][1] = kind}
  IN  content[CHOOSE i \in I : \A j \in I : i <= j][3]

DirectCalls(s) ==
  Cardinality({e \in s.config : e.via = "call"}) +
  Cardinality({e \in s.calibration : e.via = "call"})

InitHash ==
  /\ CoreIdle
  /\ fdir = <<>>
  /\ fsrc = FrameDirInit([path |-> "", loop |-> FALSE])
  /\ isrc = FrameDirIdxInit([path |-> "", loop |-> FALSE])
  /\ synth = SynthInit(SynthDefault)
  /\ out = [op |-> "new", hex |-> <<>>]
  /\ seen = [config |-> {}, calibration |-> {}]

HashConfig(cfg) ==
  /\ DirectCalls(seen) < MaxHashCalls
  /\ LET r == ConfigHashTable[cfg]
     IN  /\ out' = [op |-> "config", hex |-> compute_config_hash(cfg)]
         /\ seen' = [seen EXCEPT !.config = @ \cup
                       {[arg |-> cfg, hex |-> compute_config_hash(cfg),
                         fed |-> r.fed, via |-> "call"]}]
  /\ UNCHANGED <<coreVars, fdir, fsrc, isrc, synth>>

HashCalibration(calib) ==
  /\ DirectCalls(seen) < MaxHashCalls
  /\ LET r == CalibrationHashTable[calib]
     IN  /\ out' = [op |-> "calibration", hex |-> compute_calibration_hash(calib)]
         /\ seen' = [seen EXCEPT !.calibration = @ \cup
                       {[arg |-> calib, hex |-> compute_calibration_hash(calib),
                         fed |-> r.fed, via |-> "call"]}]
  /\ UNCHANGED <<coreVars, fdir, fsrc, isrc, synth>>

\* NodeRunner(cfg, config_path) constructed while no runner is started
NewRunner(cfg) ==
  /\ ~runner.started_
  /\ cfg # runner.cfg_
  /\ runner' = [RunnerInit EXCEPT !.cfg_ = cfg]
  /\ UNCHANGED <<files, sink, lsink, steady, wall, ret, hist, esc, adapterVars>>

HashStart ==
  /\ hist.opens < MaxOpens
  /\ LET r == RunnerStart(runner, sink, files, steady, wall, IoAllOk)
         header == r.files[PrimaryPath(runner.cfg_.out_dir, wall)]
     IN  /\ runner' = r.runner
         /\ sink' = r.sink
         /\ files' = r.files
         /\ ret' = [op |-> "start", status |-> r.status,
                    iofail |-> StreamFailed(r.sink), pruned |-> TRUE]
         /\ hist' = HistOpen(hist, r.run, r.status, r.sink, sink.open_)
         /\ out' = [op |-> "start", hex |-> HeaderValue(header, "config_hash")]
         /\ seen' =
              [config |-> seen.config \cup
                 {[arg |-> runner.cfg_, hex |-> HeaderValue(header, "config_hash"),
                   fed |-> <<>>, via |-> "start"]},
               calibration |-> seen.calibration \cup
                 {[arg |-> runner.cfg_.calibration,
                   hex |-> HeaderValue(header, "calibration_hash"),
                   fed |-> <<>>, via |-> "start"]}]
  /\ UNCHANGED <<lsink, steady, wall, esc, fdir, fsrc, isrc, synth>>

NextHash ==
  \/ \E cfg \in HashedCfgs : HashConfig(cfg)
  \/ \E calib \in Calibrations : HashCalibration(calib)
  \/ \E cfg \in RunnerCfgs : NewRunner(cfg)
  \/ HashStart
  \/ \E io \in {IoAllOk} : Stop(io)
  \/ \E w \in 0..MaxWall : SetWall(w)

SpecHash == InitHash /\ [][NextHash]_vars

----------------------------------------------------------------------------
(* Specification SpecFields: compute_config_hash called for the default    *)
(* configuration and for every configuration that differs from it in one   *)
(* field                                                                   *)

NextFields == \E cfg \in Configs : HashConfig(cfg)

SpecFields == InitHash /\ [][NextFields]_vars

----------------------------------------------------------------------------
(* Specification SpecCalib: runners constructed with the default           *)
(* configuration or with one that differs from it in one field, started    *)
(* and stopped; seen holds, for every start, the configuration and the two *)
(* fingerprints found in the header of the run file.                       *)

\* The configurations of these runners: the default one and those that
\* differ from it in the mode, the node id, a calibration field, the
\* baseline duration, the voxel size, the dataset path, the input type or
\* an output field.
CalibFields == {1, 2, 6, 7, 8, 9, 10, 12, 28, 33, 47, 48}

CalibCfgs ==
  {DefaultConfig} \cup
  UNION {{SetAt(DefaultConfig, ConfigFields[i][1], v) :
            v \in OtherValues(ConfigFields[i][2],
                              GetAt(DefaultConfig, ConfigFields[i][1]))} :
         i \in CalibFields}

InitCalib ==
  /\ CoreIdle
  /\ fdir = <<>>
  /\ fsrc = FrameDirInit([path |-> "", loop |-> FALSE])
  /\ isrc = FrameDirIdxInit([path |-> "", loop |-> FALSE])
  /\ synth = SynthInit(SynthDefault)
  /\ out = [op |-> "new", hex |-> <<>>]
  /\ seen = {}

HeaderStart ==
  /\ hist.opens < MaxOpens
  /\ LET r == RunnerStart(runner, sink, files, steady, wall, IoAllOk)
     IN  /\ runner' = r.runner
         /\ sink' = r.sink
         /\ files' = r.files
         /\ ret' = [op |-> "start", status |-> r.status,
                    iofail |-> StreamFailed(r.sink), pruned |-> TRUE]
         /\ hist' = HistOpen(hist, r.run, r.status, r.sink, sink.open_)
         /\ \E header \in {r.files[PrimaryPath(runner.cfg_.out_dir, wall)]} :
              /\ out' = [op |-> "start", hex |-> HeaderValue(header, "calibration_hash")]
              /\ seen' = seen \cup
                   {[cfg |-> runner.cfg_,
                     config_hash |-> HeaderValue(header, "config_hash"),
                     calibration_hash |-> HeaderValue(header, "calibration_hash")]}
  /\ UNCHANGED <<lsink, steady, wall, esc, fdir, fsrc, isrc, synth>>

NextCalib ==
  \/ \E cfg \in CalibCfgs : NewRunner(cfg)
  \/ HeaderStart
  \/ \E io \in {IoAllOk} : Stop(io)

SpecCalib == InitCalib /\ [][NextCalib]_vars

----------------------------------------------------------------------------
(* wm_node (src/apps/wm_node/main.cpp:1-207): main with the driver loop.   *)
(* `out` holds main's position and locals, `seen` what has happened in     *)
(* the run so far.  Times are in units of half a tick period; all of an    *)
(* iteration's work time passes between the flush and the reading of       *)
(* `after`.                                                                *)

\* Command-line tokens: "--help", "-h", "--config", "-x"
ArgHelp    == <<45, 45, 104, 101, 108, 112>>
ArgH       == <<45, 104>>
ArgConfig  == <<45, 45, 99, 111, 110, 102, 105, 103>>
ArgUnknown == <<45, 120>>

\* parse_args(argc, argv), on argv[1..]
RECURSIVE parse_args_from(_, _, _)
parse_args_from(argv, i, a) ==
  IF i > Len(argv) THEN a
  ELSE IF argv[i] = ArgHelp \/ argv[i] = ArgH THEN [a EXCEPT !.help = TRUE]
  ELSE IF argv[i] = ArgConfig /\ i + 1 <= Len(argv)
    THEN parse_args_from(argv, i + 2, [a EXCEPT !.config_path = argv[i + 1]])
  ELSE [a EXCEPT !.help = TRUE]

parse_args(argv) == parse_args_from(argv, 1, [config_path |-> <<>>, help |-> FALSE])

\* std::to_string of a non-negative integer
RECURSIVE to_string(_)
to_string(n) ==
  IF n < 10 THEN <<48 + n>> ELSE to_string(n \div 10) \o <<48 + (n % 10)>>

\* The messages of the driver's events
MsgMaxTicks   == <<109, 97, 120, 95, 116, 105, 99, 107, 115, 32, 114, 101, 97, 99, 104,
                   101, 100>>
MsgMaxRuntime == <<109, 97, 120, 95, 114, 117, 110, 116, 105, 109, 101, 32, 114, 101, 97,
                   99, 104, 101, 100>>
MsgInputEof   == <<105, 110, 112, 117, 116, 32, 115, 111, 117, 114, 99, 101, 32, 114, 101,
                   97, 99, 104, 101, 100, 32, 101, 110, 100>>
MsgAlive(tick_count) ==
  <<97, 108, 105, 118, 101, 32, 116, 105, 99, 107, 61>> \o to_string(tick_count)
MsgFrameStats(frame_id, npoints) ==
  <<102, 114, 97, 109, 101, 95, 105, 100, 61>> \o frame_id \o
  <<32, 110, 117, 109, 95, 112, 111, 105, 110, 116, 115, 61>> \o to_string(npoints)

\* tick_period: 1.0 / cfg.input.tick_hz
MainTickPeriod == 2

\* cfg.input as main reads it.  loop is input.frame_dir.loop.
NoInput ==
  [type |-> "synth", heartbeat_every_s |-> 0, max_ticks |-> 0, max_run_s |-> 0,
   loop |-> FALSE]

MainInputs ==
  {c \in [type : {"synth", "frame_dir"}, heartbeat_every_s : {0, 3},
          max_ticks : {0, 2}, max_run_s : {0, 3}, loop : BOOLEAN] :
     c.type = "synth" => ~c.loop}

\* What load_config returns: an error (the file cannot be read or parsed,
\* or validate_config rejects it) or a configuration.
MainLoads ==
  {[ok |-> FALSE, input |-> NoInput]} \cup {[ok |-> TRUE, input |-> c] : c \in MainInputs}

\* The command lines: up to two tokens after the program name.
ArgTokens == {ArgHelp, ArgConfig, ArgUnknown, StrA}

Argvs == UNION {[1..n -> ArgTokens] : n \in 0..2}

\* The frame directory of the run: two frame files and two other entries.
MainFrameDir ==
  [n \in {frame_filename(0), frame_filename(1), TxtName, SubdirName} |->
     IF n = SubdirName THEN [regular |-> FALSE, size |-> 0]
     ELSE [regular |-> TRUE, size |-> GoodSize]]

MainIdle ==
  [pc |-> "entry", input |-> NoInput, t_start |-> 0, next_tick |-> 0, last_hb |-> 0,
   tick_count |-> 0, had_error |-> FALSE, exit |-> -1]

NoPace ==
  [n |-> 0, slept |-> FALSE, before |-> 0, after |-> 0, wake |-> 0, boundary |-> 0,
   work |-> 0, prevSlept |-> FALSE]

\* seen: the calls that returned an error; why the loop was left; the
\* frames pulled, those also reported, and those also flushed; whether a
\* heartbeat emit, frame emit or per-tick flush has failed and the number
\* of pulls and emits made after that; the last pacing step.
MainSeenInit ==
  [errors |-> {}, reason |-> "none", pulled |-> 0, reported |-> 0, flushed |-> 0,
   failed |-> FALSE, late |-> 0, pace |-> NoPace]

\* --help or -h is among the arguments
HelpRequested(argv) == \E i \in DOMAIN argv : argv[i] \in {ArgHelp, ArgH}

\* The loop-exit test on the tick count that never fires.
max_ticks_never(max_ticks, tick_count) == FALSE

\* cfg.input.max_ticks > 0 && tick_count >= cfg.input.max_ticks
max_ticks_reached(max_ticks, tick_count) == max_ticks > 0 /\ tick_count >= max_ticks

\* A status test that takes every status for OK.
status_ignored(st) == FALSE

\* !st.ok() after emit_heartbeat
heartbeat_failed(st) == st # kOk

\* !st_flush.ok() after the per-tick flush
flush_failed(st) == st # kOk

\* Pacing that keeps the old schedule after an overrun.
tick_pacing_catch_up(next_tick, after, tick_period) ==
  [sleeps |-> after < next_tick, next_tick |-> next_tick + tick_period]

\* The pacing at the end of an iteration: whether the loop sleeps until
\* next_tick, and the next boundary.
tick_pacing(next_tick, after, tick_period) ==
  IF after < next_tick
    THEN [sleeps |-> TRUE, next_tick |-> next_tick + tick_period]
    ELSE [sleeps |-> FALSE, next_tick |-> after + tick_period]

\* The frame of either source as main uses it.
MainFrame(type, r) ==
  IF type = "synth"
    THEN [frame_id |-> <<115, 121, 110, 116, 104>>,
          npoints |-> r.frame.floor + r.frame.obstacle]
    ELSE [frame_id |-> r.frame.frame_id, npoints |-> r.frame.npoints]

InitMain ==
  /\ CoreIdle
  /\ fdir = MainFrameDir
  /\ fsrc = FrameDirInit([path |-> "", loop |-> FALSE])
  /\ isrc = FrameDirIdxInit([path |-> "", loop |-> FALSE])
  /\ synth = SynthInit(SynthDefault)
  /\ out = MainIdle
  /\ seen = MainSeenInit

\* main.cpp:72-133: arguments, configuration, start of the run, the source,
\* and the locals of the loop.  A return after start destroys the sink,
\* which closes it.
MainEntry(argv, load, listing, io) ==
  /\ out.pc = "entry"
  /\ \E args \in {parse_args(argv)} :
     \E st \in {RunnerStart([runner EXCEPT !.config_path_ = args.config_path],
                            sink, files, steady, wall, io)},
        src \in {FrameDirOpen(FrameDirInit([path |-> "frames",
                                            loop |-> load.input.loop]),
                              fdir, listing, io)},
        hb \in {IF load.input.heartbeat_every_s > 0 THEN load.input.heartbeat_every_s
                ELSE 0} :
         IF args.help \/ args.config_path = <<>>
           THEN /\ out' = [out EXCEPT !.pc = "exited",
                                      !.exit = IF args.help THEN 0 ELSE 2]
                /\ seen' = [seen EXCEPT !.errors = IF HelpRequested(argv) THEN {}
                                                   ELSE {"arguments"}]
                /\ UNCHANGED <<files, sink, runner, fsrc>>
         ELSE IF ~load.ok
           THEN /\ out' = [out EXCEPT !.pc = "exited", !.exit = 1]
                /\ seen' = [seen EXCEPT !.errors = {"load"}]
                /\ UNCHANGED <<files, sink, runner, fsrc>>
         ELSE IF st.status # kOk
           THEN /\ out' = [out EXCEPT !.pc = "exited", !.exit = 2,
                                      !.input = load.input]
                /\ seen' = [seen EXCEPT !.errors = {"start"}]
                /\ runner' = st.runner
                /\ sink' = SinkClose(st.sink)
                /\ files' = st.files
                /\ UNCHANGED fsrc
         ELSE IF load.input.type = "frame_dir" /\ src.status # kOk
           THEN /\ out' = [out EXCEPT !.pc = "exited", !.exit = 2,
                                      !.input = load.input]
                /\ seen' = [seen EXCEPT !.errors = {"source_open"}]
                /\ runner' = st.runner
                /\ sink' = SinkClose(st.sink)
                /\ files' = st.files
                /\ fsrc' = FrameDirClose(src.src)
         ELSE /\ out' = [pc |-> "head", input |-> load.input, t_start |-> steady,
                         next_tick |-> steady + MainTickPeriod,
                         last_hb |-> steady - hb, tick_count |-> 0,
                         had_error |-> FALSE, exit |-> -1]
              /\ seen' = seen
              /\ runner' = st.runner
              /\ sink' = st.sink
              /\ files' = st.files
              /\ fsrc' = IF load.input.type = "frame_dir" THEN src.src ELSE fsrc
  /\ UNCHANGED <<lsink, steady, wall, ret, hist, esc, fdir, isrc, synth>>

\* A heartbeat test that leaves out the time since the last heartbeat.
heartbeat_due_every_iteration(every_s, now, last_hb) == every_s > 0

\* main.cpp:154-155: a heartbeat is due
heartbeat_due(every_s, now, last_hb) == every_s > 0 /\ now - last_hb >= every_s

\* main.cpp:136-163: the two limits, then the heartbeat
LoopHead(io) ==
  /\ out.pc = "head"
  /\ \E now \in {steady}, inp \in {out.input} :
     \E ticks \in {max_ticks_reached(inp.max_ticks, out.tick_count)},
        run \in {inp.max_run_s > 0 /\ now - out.t_start >= inp.max_run_s},
        due \in {heartbeat_due(inp.heartbeat_every_s, now, out.last_hb)} :
     \E sd \in {RunnerEmitEvent(runner, sink, files, steady, wall, "shutdown",
                                IF ticks THEN MsgMaxTicks ELSE MsgMaxRuntime, io)},
        hb \in {RunnerEmitHeartbeat(runner, sink, files, steady, wall,
                                    MsgAlive(out.tick_count), io)} :
     \E sf \in {SinkFlush(sd.sink, sd.files, io)} :
         IF ticks \/ run
           THEN /\ sink' = sf.sink
                /\ files' = sf.files
                /\ out' = [out EXCEPT !.pc = "return"]
                /\ seen' = [seen EXCEPT
                     !.reason = IF ticks THEN "max_ticks" ELSE "max_run_s",
                     !.errors = @ \cup (IF sd.status # kOk THEN {"terminal_emit"} ELSE {})
                                  \cup (IF sf.status # kOk THEN {"terminal_flush"} ELSE {}),
                     !.late = IF seen.failed THEN @ + 1 ELSE @]
         ELSE IF due
           THEN /\ sink' = hb.sink
                /\ files' = hb.files
                /\ out' = IF heartbeat_failed(hb.status)
                            THEN [out EXCEPT !.pc = "return", !.last_hb = now,
                                             !.had_error = TRUE]
                            ELSE [out EXCEPT !.pc = "pull", !.last_hb = now]
                /\ seen' = [seen EXCEPT
                     !.reason = IF heartbeat_failed(hb.status) THEN "error" ELSE @,
                     !.errors = @ \cup (IF hb.status # kOk THEN {"heartbeat"} ELSE {}),
                     !.failed = @ \/ hb.status # kOk,
                     !.late = IF seen.failed THEN @ + 1 ELSE @]
         ELSE /\ out' = [out EXCEPT !.pc = "pull"]
              /\ UNCHANGED <<sink, files, seen>>
  /\ UNCHANGED <<lsink, runner, steady, wall, ret, hist, esc, fdir, fsrc, isrc, synth>>

\* main.cpp:165-193: one frame, its event, the flush, the tick count
PullFrame(io) ==
  /\ out.pc = "pull"
  /\ seen.pulled < MaxLoopPulls
  /\ \E nx \in {IF out.input.type = "synth"
                  THEN SynthNext(synth)
                  ELSE FrameDirNext(fsrc, fdir, io)} :
     \E fr \in {MainFrame(out.input.type, nx)} :
     \E em \in {RunnerEmitEvent(runner, sink, files, steady, wall, "frame_stats",
                                MsgFrameStats(fr.frame_id, fr.npoints), io)},
        eof \in {RunnerEmitEvent(runner, sink, files, steady, wall, "input_eof",
                                 MsgInputEof, io)},
        lt \in {IF seen.failed THEN seen.late + 1 ELSE seen.late} :
     \E fl \in {SinkFlush(em.sink, em.files, io)},
        ef \in {SinkFlush(eof.sink, eof.files, io)} :
         /\ synth' = IF out.input.type = "synth" THEN nx.src ELSE synth
         /\ fsrc' = IF out.input.type = "synth" THEN fsrc ELSE nx.src
         /\ IF nx.status = kOk
              THEN IF em.status # kOk
                     THEN /\ sink' = em.sink
                          /\ files' = em.files
                          /\ out' = [out EXCEPT !.pc = "return", !.had_error = TRUE]
                          /\ seen' = [seen EXCEPT !.pulled = @ + 1, !.reason = "error",
                                        !.errors = @ \cup {"frame_emit"},
                                        !.failed = TRUE, !.late = lt]
                   ELSE IF flush_failed(fl.status)
                     THEN /\ sink' = fl.sink
                          /\ files' = fl.files
                          /\ out' = [out EXCEPT !.pc = "return", !.had_error = TRUE]
                          /\ seen' = [seen EXCEPT !.pulled = @ + 1, !.reported = @ + 1,
                                        !.reason = "error", !.errors = @ \cup {"flush"},
                                        !.failed = TRUE, !.late = lt]
                   ELSE /\ sink' = fl.sink
                        /\ files' = fl.files
                        /\ out' = [out EXCEPT !.pc = "pace", !.tick_count = @ + 1]
                        /\ seen' = [seen EXCEPT !.pulled = @ + 1, !.reported = @ + 1,
                                      !.flushed = IF fl.status = kOk THEN @ + 1 ELSE @,
                                      !.errors = @ \cup (IF fl.status # kOk THEN {"flush"}
                                                         ELSE {}),
                                      !.failed = @ \/ fl.status # kOk,
                                      !.late = lt]
            ELSE IF nx.status = kOutOfRange
              THEN /\ sink' = ef.sink
                   /\ files' = ef.files
                   /\ out' = [out EXCEPT !.pc = "return"]
                   /\ seen' = [seen EXCEPT !.reason = "eof",
                        !.errors = @ \cup (IF eof.status # kOk THEN {"terminal_emit"}
                                           ELSE {})
                                     \cup (IF ef.status # kOk THEN {"terminal_flush"}
                                           ELSE {}),
                        !.late = lt]
            ELSE /\ out' = [out EXCEPT !.pc = "return", !.had_error = TRUE]
                 /\ seen' = [seen EXCEPT !.reason = "error", !.errors = @ \cup {"next"},
                               !.late = lt]
                 /\ UNCHANGED <<sink, files>>
  /\ UNCHANGED <<lsink, runner, steady, wall, ret, hist, esc, fdir, isrc>>

\* main.cpp:195-201: the iteration's work has taken `work`; sleep_until
\* returns at the boundary or `late` after it.
Pace(work, late) ==
  /\ out.pc = "pace"
  /\ \E after \in {steady + work} :
     \E p \in {tick_pacing(out.next_tick, after, MainTickPeriod)} :
     \E wake \in {IF p.sleeps THEN out.next_tick + late ELSE after} :
         /\ p.sleeps \/ late = 0
         /\ steady' = wake
         /\ out' = [out EXCEPT !.pc = "head", !.next_tick = p.next_tick]
         /\ seen' = [seen EXCEPT !.pace =
                       [n |-> @.n + 1, slept |-> p.sleeps, before |-> out.next_tick,
                        after |-> after, wake |-> wake, boundary |-> p.next_tick,
                        work |-> work, prevSlept |-> (@.n = 0 \/ @.slept)]]
  /\ UNCHANGED <<files, sink, lsink, runner, wall, ret, hist, esc, fdir, fsrc, isrc,
                 synth>>

\* main.cpp:107-115, 204-206: the guard closes the source and stops the
\* runner; the exit code
Return(io) ==
  /\ out.pc = "return"
  /\ \E r \in {RunnerStop(runner, sink, files, io)} :
         /\ runner' = r.runner
         /\ sink' = r.sink
         /\ files' = r.files
         /\ seen' = [seen EXCEPT !.errors = @ \cup (IF r.flushed # kOk THEN {"stop_flush"}
                                                   ELSE {})]
  /\ fsrc' = IF out.input.type = "frame_dir" THEN FrameDirClose(fsrc) ELSE fsrc
  /\ out' = [out EXCEPT !.pc = "exited", !.exit = IF out.had_error THEN 2 ELSE 0]
  /\ UNCHANGED <<lsink, steady, wall, ret, hist, esc, fdir, isrc, synth>>

\* The time an iteration's work takes, and how late a sleep returns.
WorkTimes == {0, 5}

SleepLate == {0, 3}

\* A step of the driver loop or of the return from it.
LoopStep ==
  \/ /\ out.pc = "head"
     /\ \E io \in IoFor({"wF", "wL", "flF"}) : LoopHead(io)
  \/ /\ out.pc = "pull"
     /\ \E io \in IoFor({"rd", "wF", "wL", "flF", "flL"}) : PullFrame(io)
  \/ /\ out.pc = "pace"
     /\ \E work \in WorkTimes, late \in SleepLate : Pace(work, late)
  \/ /\ out.pc = "return"
     /\ \E io \in IoFor({"flF"}) : Return(io)

NextMain ==
  \/ /\ out.pc = "entry"
     /\ \E argv \in Argvs, load \in MainLoads,
           listing \in Listings({frame_filename(0), frame_filename(1)}),
           io \in IoFor({"openL", "wF", "list"}) : MainEntry(argv, load, listing, io)
  \/ LoopStep

SpecMain == InitMain /\ [][NextMain]_vars

\* The driver with every call returning and the process running on: once
\* in the loop, a step that can be taken is taken.
SpecMainLive == InitMain /\ [][NextMain]_vars /\ WF_vars(LoopStep)

----------------------------------------------------------------------------
(* Configuration: validate_config (include/wm/core/config.hpp:216-263),   *)
(* load_config (src/core/util/config_loader.cpp:120-237) and the two      *)
(* mains that start a run from a loaded configuration and exit: the one   *)
(* with command-line overrides (src/unnamed/part_000:181-261) and the one *)
(* that goes through NodeRunner (src/apps/wm_node/main.cpp:538-585).      *)

\* A float by its four little-endian bytes: the 31 bits below the sign,
\* NaN (exponent all ones, fraction not zero), and a <= b as the machine
\* compares (false when either is NaN, -0 equal to +0).
F32Magnitude(v) == (v[4] % 128) * 16777216 + v[3] * 65536 + v[2] * 256 + v[1]

F32IsNaN(v) == F32Magnitude(v) > 255 * 8388608

F32Key(v) == IF v[4] >= 128 THEN 0 - F32Magnitude(v) ELSE F32Magnitude(v)

F32Le(a, b) == ~F32IsNaN(a) /\ ~F32IsNaN(b) /\ F32Key(a) <= F32Key(b)

\* A double by its eight little-endian bytes: v <= 0.0 and v < 0.0.
F64High(v) == (v[8] % 128) * 16777216 + v[7] * 65536 + v[6] * 256 + v[5]

F64LowZero(v) == \A i \in 1..4 : v[i] = 0

F64IsNaN(v) ==
  \/ F64High(v) > 2047 * 1048576
  \/ F64High(v) = 2047 * 1048576 /\ ~F64LowZero(v)

F64IsZero(v) == F64High(v) = 0 /\ F64LowZero(v)

F64LeZero(v) == ~F64IsNaN(v) /\ (v[8] >= 128 \/ F64IsZero(v))

F64LtZero(v) == ~F64IsNaN(v) /\ v[8] >= 128 /\ ~F64IsZero(v)

\* AABB::is_valid()
AABB_is_valid(min, max) ==
  F32Le(min.x, max.x) /\ F32Le(min.y, max.y) /\ F32Le(min.z, max.z)

\* "synth", "frame_dir"
StrSynth == <<115, 121, 110, 116, 104>>

StrFrameDir == <<102, 114, 97, 109, 101, 95, 100, 105, 114>>

\* validate_config(cfg): the code of the returned Status
validate_config(cfg) ==
  IF cfg.node_id = <<>> THEN kInvalidArgument
  ELSE IF F32Le(cfg.mapping.voxel_size_m, F32Zero) THEN kInvalidArgument
  ELSE IF cfg.mapping.block_size_vox <= 0 THEN kInvalidArgument
  ELSE IF ~AABB_is_valid(cfg.mapping.roi.min, cfg.mapping.roi.max) THEN kInvalidArgument
  ELSE IF cfg.change.persistence_ns < 0 THEN kInvalidArgument
  ELSE IF cfg.budgets.max_points_per_sec <= 0 THEN kInvalidArgument
  ELSE IF cfg.budgets.target_fps <= 0 THEN kInvalidArgument
  ELSE IF cfg.out_dir_bytes = <<>> THEN kInvalidArgument
  ELSE IF F64LeZero(cfg.input.tick_hz) THEN kInvalidArgument
  ELSE IF cfg.input.heartbeat_every_s < 0 THEN kInvalidArgument
  ELSE IF cfg.input.max_ticks < 0 THEN kInvalidArgument
  ELSE IF F64LtZero(cfg.input.max_run_s) THEN kInvalidArgument
  ELSE IF cfg.input.synth.num_points <= 0 THEN kInvalidArgument
  ELSE IF cfg.input.type # StrSynth /\ cfg.input.type # StrFrameDir THEN kInvalidArgument
  ELSE IF cfg.input.type = StrFrameDir /\ cfg.input.frame_dir.path = <<>>
    THEN kInvalidArgument
  ELSE kOk

\* to_lower(s)
to_lower(s) == [i \in DOMAIN s |-> IF s[i] \in 65..90 THEN s[i] + 32 ELSE s[i]]

\* "replay", "live"
StrReplay == <<114, 101, 112, 108, 97, 121>>

StrLive == <<108, 105, 118, 101>>

\* parse_run_mode on a scalar, and parse_mode of the older main
parse_run_mode(s) ==
  IF to_lower(s) = StrReplay THEN [ok |-> TRUE, mode |-> "kReplay"]
  ELSE IF to_lower(s) = StrLive THEN [ok |-> TRUE, mode |-> "kLive"]
  ELSE [ok |-> FALSE, mode |-> "kReplay"]

\* seconds_to_ns(seconds): the product seconds * 1e9 is given as a fraction
\* <<numerator, denominator>> of a nanosecond; the cast to an integer drops
\* the fractional part (towards zero).
seconds_to_ns(seconds) ==
  IF seconds[1] >= 0 THEN seconds[1] \div seconds[2]
  ELSE 0 - ((0 - seconds[1]) \div seconds[2])

\* The fields that the file gives in seconds.
DurationPaths ==
  {<<"baseline", "capture_duration_ns">>, <<"baseline", "warmup_duration_ns">>,
   <<"change", "persistence_ns">>, <<"replay", "start_offset_ns">>,
   <<"replay", "end_offset_ns">>}

\* Durations in a file, in halves of a nanosecond: -1.5 ns .. 2.5 ns
SecondsValues == {<<n, 2>> : n \in (0 - 3)..5}

\* A configuration file: unreadable, or empty (key 0), or with one key, the
\* key being the number of the field it sets and the value what the file
\* holds for it: a mode name, a duration in seconds, a sequence of matrix
\* entries, or the value itself.
EmptyDoc == [readable |-> TRUE, key |-> 0, value |-> <<>>]

DocValues(i) ==
  LET kind == ConfigFields[i][2]
      path == ConfigFields[i][1]
      v    == GetAt(DefaultConfig, path)
  IN  IF kind = "mode" THEN {StrReplay, <<76, 73, 86, 69>>, <<102, 97, 115, 116>>}
      ELSE IF path \in DurationPaths
        THEN {s \in SecondsValues : seconds_to_ns(s) \in {v} \cup OtherValues(kind, v)}
      ELSE IF kind = "transform" THEN {v, <<F32One>>} \cup OtherValues(kind, v)
      ELSE {v} \cup OtherValues(kind, v)

Docs ==
  {EmptyDoc, [readable |-> FALSE, key |-> 0, value |-> <<>>]} \cup
  UNION {{[readable |-> TRUE, key |-> i, value |-> v] : v \in DocValues(i)} :
           i \in DOMAIN ConfigFields}

\* The key is one that load_config reads (it reads no key of `input`).
KeyIsRead(i) == i # 0 /\ ConfigFields[i][1][1] # "input"

\* The value of the key does not parse: an unknown mode name, or a
\* transform that is not 4x4.
ValueRejected(i, v) ==
  \/ ConfigFields[i][2] = "mode" /\ ~parse_run_mode(v).ok
  \/ ConfigFields[i][2] = "transform" /\ Len(v) # 16

\* The Config of load_config before its final validation.
LoadedFields(doc) ==
  IF ~KeyIsRead(doc.key) THEN DefaultConfig
  ELSE SetAt(DefaultConfig, ConfigFields[doc.key][1],
             IF ConfigFields[doc.key][2] = "mode" THEN parse_run_mode(doc.value).mode
             ELSE IF ConfigFields[doc.key][1] \in DurationPaths
               THEN seconds_to_ns(doc.value)
             ELSE doc.value)

\* load_config without the final validation.
load_config_unvalidated(doc) ==
  IF ~doc.readable
    THEN [ok |-> FALSE, status |-> kNotFound, cfg |-> DefaultConfig]
  ELSE IF KeyIsRead(doc.key) /\ ValueRejected(doc.key, doc.value)
    THEN [ok |-> FALSE, status |-> kInvalidArgument, cfg |-> DefaultConfig]
  ELSE [ok |-> TRUE, status |-> kOk, cfg |-> LoadedFields(doc)]

\* load_config(path)
load_config(doc) ==
  IF ~doc.readable
    THEN [ok |-> FALSE, status |-> kNotFound, cfg |-> DefaultConfig]
  ELSE IF KeyIsRead(doc.key) /\ ValueRejected(doc.key, doc.value)
    THEN [ok |-> FALSE, status |-> kInvalidArgument, cfg |-> DefaultConfig]
  ELSE IF validate_config(LoadedFields(doc)) # kOk
    THEN [ok |-> FALSE, status |-> validate_config(LoadedFields(doc)),
          cfg |-> DefaultConfig]
  ELSE [ok |-> TRUE, status |-> kOk, cfg |-> LoadedFields(doc)]

\* The Args that parse_args of the older main returns for a command line
\* with --config: an override that is not given is the empty string.
OverrideArgs ==
  [config_path : {StrA}, node_id : {<<>>, StrA}, mode : {<<>>, <<76, 105, 118, 101>>,
                                                          <<102, 97, 115, 116>>},
   dataset_path : {<<>>, StrA}, out_dir : {<<>>, <<111, 50>>}]

\* The overrides of the older main applied to cfg (the mode is parsed
\* before).
ApplyOverrides(cfg, args) ==
  [cfg EXCEPT
     !.node_id = IF args.node_id # <<>> THEN args.node_id ELSE @,
     !.mode = IF args.mode # <<>> THEN parse_run_mode(args.mode).mode ELSE @,
     !.replay.dataset_path = IF args.dataset_path # <<>> THEN args.dataset_path ELSE @,
     !.out_dir_bytes = IF args.out_dir # <<>> THEN args.out_dir ELSE @,
     !.out_dir = IF args.out_dir # <<>> THEN "cli" ELSE @]

\* "wm_node config loaded"
MsgLoaded ==
  <<119, 109, 95, 110, 111, 100, 101, 32, 99, 111, 110, 102, 105, 103, 32, 108, 111, 97,
    100, 101, 100>>

\* out: the main that ran, its exit code and, for a direct call of
\* validate_config, the argument and the result.  seen: the run that was
\* started (sink opened, header written), with its configuration.
ConfigIdle == [op |-> "new", exit |-> 0 - 1, cfg |-> DefaultConfig, status |-> kOk]

NoStart == [started |-> FALSE, via |-> "none", cfg |-> DefaultConfig, doc |-> EmptyDoc]

InitConfig ==
  /\ CoreIdle
  /\ fdir = <<>>
  /\ fsrc = FrameDirInit([path |-> "", loop |-> FALSE])
  /\ isrc = FrameDirIdxInit([path |-> "", loop |-> FALSE])
  /\ synth = SynthInit(SynthDefault)
  /\ out = ConfigIdle
  /\ seen = NoStart

\* main of src/unnamed/part_000 from load_config on: overrides,
\* re-validation, the sink opened on a RunInfo with empty fingerprints, one
\* heartbeat, flush; the sink is closed when main returns.
OverrideMain(doc, args, io) ==
  /\ out.op = "new"
  /\ \E ld \in {load_config(doc)} :
     \E cfg \in {ApplyOverrides(ld.cfg, args)} :
     \E op \in {LegacySinkOpen(lsink, files,
                               [node_id |-> cfg.node_id, config_path |-> args.config_path,
                                out_dir |-> cfg.out_dir, config_hash |-> <<>>,
                                calibration_hash |-> <<>>, start_time |-> wall], io)} :
     \E em \in {LegacySinkEmit(op.sink, op.files,
                               [type |-> "heartbeat", timestamp |-> wall, frame |-> <<>>,
                                aabb |-> 0, message |-> MsgLoaded, confidence |-> 0,
                                persistence_s |-> 0], io)} :
     \E fl \in {LegacySinkFlush(em.sink, em.files, io)} :
         IF ~ld.ok
           THEN /\ out' = [op |-> "override", exit |-> 2, cfg |-> ld.cfg,
                           status |-> ld.status]
                /\ UNCHANGED <<lsink, files, seen>>
         ELSE IF args.mode # <<>> /\ ~parse_run_mode(args.mode).ok
           THEN /\ out' = [op |-> "override", exit |-> 2, cfg |-> ld.cfg,
                           status |-> kInvalidArgument]
                /\ UNCHANGED <<lsink, files, seen>>
         ELSE IF validate_config(cfg) # kOk
           THEN /\ out' = [op |-> "override", exit |-> 2, cfg |-> cfg,
                           status |-> validate_config(cfg)]
                /\ UNCHANGED <<lsink, files, seen>>
         ELSE IF op.status # kOk
           THEN /\ out' = [op |-> "override", exit |-> 2, cfg |-> cfg,
                           status |-> op.status]
                /\ lsink' = LegacySinkClose(op.sink)
                /\ files' = op.files
                /\ seen' = seen
         ELSE IF em.status # kOk
           THEN /\ out' = [op |-> "override", exit |-> 2, cfg |-> cfg,
                           status |-> em.status]
                /\ lsink' = LegacySinkClose(em.sink)
                /\ files' = em.files
                /\ seen' = [started |-> TRUE, via |-> "override", cfg |-> cfg,
                            doc |-> doc]
         ELSE /\ out' = [op |-> "override", exit |-> 0, cfg |-> cfg, status |-> kOk]
              /\ lsink' = LegacySinkClose(fl.sink)
              /\ files' = fl.files
              /\ seen' = [started |-> TRUE, via |-> "override", cfg |-> cfg, doc |-> doc]
  /\ UNCHANGED <<sink, runner, steady, wall, ret, hist, esc, fdir, fsrc, isrc, synth>>

\* main of src/apps/wm_node/main.cpp:538-585 from load_config on: the
\* runner is constructed on the loaded configuration and started, one
\* heartbeat is emitted, the runner is stopped.
SmokeMain(doc, io) ==
  /\ out.op = "new"
  /\ \E ld \in {load_config(doc)} :
     \E st \in {RunnerStart([RunnerInit EXCEPT !.cfg_ = ld.cfg], sink, files,
                            steady, wall, io)} :
     \E hb \in {RunnerEmitHeartbeat(st.runner, st.sink, st.files, steady, wall,
                                    MsgLoaded, io)} :
     \E sp \in {RunnerStop(st.runner, hb.sink, hb.files, io)} :
         IF ~ld.ok
           THEN /\ out' = [op |-> "smoke", exit |-> 1, cfg |-> ld.cfg,
                           status |-> ld.status]
                /\ UNCHANGED <<sink, files, runner, seen>>
         ELSE IF st.status # kOk
           THEN /\ out' = [op |-> "smoke", exit |-> 2, cfg |-> ld.cfg,
                           status |-> st.status]
                /\ sink' = SinkClose(st.sink)
                /\ files' = st.files
                /\ runner' = st.runner
                /\ seen' = seen
         ELSE /\ out' = [op |-> "smoke", exit |-> IF hb.status # kOk THEN 2 ELSE 0,
                         cfg |-> ld.cfg, status |-> hb.status]
              /\ sink' = sp.sink
              /\ files' = sp.files
              /\ runner' = sp.runner
              /\ seen' = [started |-> TRUE, via |-> "smoke", cfg |-> ld.cfg, doc |-> doc]
  /\ UNCHANGED <<lsink, steady, wall, ret, hist, esc, fdir, fsrc, isrc, synth>>

NextConfig ==
  \/ \E doc \in Docs, args \in OverrideArgs, io \in IoFor({"mkdir", "openF", "wF"}) :
       OverrideMain(doc, args, io)
  \/ \E doc \in Docs, io \in IoFor({"openF", "openL", "wF", "wL"}) : SmokeMain(doc, io)

SpecConfig == InitConfig /\ [][NextConfig]_vars

\* Values for a direct call of validate_config: those of Configs and, for
\* a number, also zero, its negative, minus zero and a NaN; for a corner
\* of the region, one with y = 100 and one with x = NaN.
F32NaN == <<0, 0, 192, 127>>

F64NaN == <<0, 0, 0, 0, 0, 0, 248, 127>>

Negated(v) == [v EXCEPT ![Len(v)] = (@ + 128) % 256]

ValidateValues(kind, v) ==
  OtherValues(kind, v) \cup
  (CASE kind = "int"  -> {0, 0 - 1, 0 - 2}
     [] kind = "real" -> IF Len(v) = 4
                           THEN {F32Zero, Negated(F32Zero), Negated(v), F32NaN}
                           ELSE {F64Zero, Negated(F64Zero), Negated(v), F64NaN}
     [] kind = "vec3" -> {[v EXCEPT !.y = <<0, 0, 200, 66>>], [v EXCEPT !.x = F32NaN]}
     [] kind = "string" -> {StrSynth, StrFrameDir}
     [] OTHER -> {})

\* The default configuration with the directory source selected.
FrameDirConfig ==
  [DefaultConfig EXCEPT !.input.type = StrFrameDir,
                        !.input.frame_dir.path = <<102, 114, 97, 109, 101, 115>>]

ValidateCfgs ==
  UNION {{base} \cup
         UNION {{SetAt(base, ConfigFields[i][1], v) :
                   v \in ValidateValues(ConfigFields[i][2],
                                        GetAt(base, ConfigFields[i][1]))} :
                i \in DOMAIN ConfigFields} :
         base \in {DefaultConfig, FrameDirConfig}}

\* validate_config(cfg) called on its own
Validate(cfg) ==
  /\ out' = [op |-> "validate", exit |-> 0 - 1, cfg |-> cfg,
             status |-> validate_config(cfg)]
  /\ UNCHANGED <<coreVars, fdir, fsrc, isrc, synth, seen>>

NextValidate == \E cfg \in ValidateCfgs : Validate(cfg)

SpecValidate == InitConfig /\ [][NextValidate]_vars

----------------------------------------------------------------------------
(* The name of the primary file (src/core/events/jsonl_event_sink.cpp:36-39) *)
(* as bytes, for two runs.                                                   *)

\* "events_" + std::to_string(wall0) + ".jsonl"
primary_file_name(wall0) ==
  <<101, 118, 101, 110, 116, 115, 95>> \o to_string(wall0) \o
  <<46, 106, 115, 111, 110, 108>>

\* a < b on std::string: byte-wise lexicographic order
RECURSIVE string_less(_, _)
string_less(a, b) ==
  IF b = <<>> THEN FALSE
  ELSE IF a = <<>> THEN TRUE
  ELSE IF Head(a) # Head(b) THEN Head(a) < Head(b)
  ELSE string_less(Tail(a), Tail(b))

NamesIdle == [op |-> "new", a |-> 0, b |-> 0, name_a |-> <<>>, name_b |-> <<>>]

InitNames ==
  /\ CoreIdle
  /\ fdir = <<>>
  /\ fsrc = FrameDirInit([path |-> "", loop |-> FALSE])
  /\ isrc = FrameDirIdxInit([path |-> "", loop |-> FALSE])
  /\ synth = SynthInit(SynthDefault)
  /\ out = NamesIdle
  /\ seen = <<>>

\* The names open() derives for a run started at a and a run started at b.
NameRuns(a, b) ==
  /\ out' = [op |-> "names", a |-> a, b |-> b,
             name_a |-> primary_file_name(a), name_b |-> primary_file_name(b)]
  /\ UNCHANGED <<coreVars, fdir, fsrc, isrc, synth, seen>>

NextNames == \E a \in 0..MaxNameTime, b \in 0..MaxNameTime : NameRuns(a, b)

SpecNames == InitNames /\ [][NextNames]_vars

----------------------------------------------------------------------------
(* The file names pruning tells apart (node_runner.cpp:16-44) *)

StrEventsPrefix == <<101, 118, 101, 110, 116, 115, 95>>
StrJsonlSuffix  == <<46, 106, 115, 111, 110, 108>>
StrEventsLatest == <<101, 118, 101, 110, 116, 115, 95, 108, 97, 116, 101, 115, 116,
                     46, 106, 115, 111, 110, 108>>

\* is_digits(s)
is_digits(s) == s # <<>> /\ \A i \in 1..Len(s) : s[i] >= 48 /\ s[i] <= 57

\* std::stoll on a string of digits
RECURSIVE stoll(_)
stoll(s) ==
  IF s = <<>> THEN 0
  ELSE 10 * stoll(SubSeq(s, 1, Len(s) - 1)) + (s[Len(s)] - 48)

\* parse_events_epoch_ns_from_name on the bytes of a file name
parse_events_epoch_ns_from_file_name(name) ==
  IF name = StrEventsLatest THEN -1
  ELSE IF Len(name) < Len(StrEventsPrefix)
          \/ SubSeq(name, 1, Len(StrEventsPrefix)) # StrEventsPrefix THEN -1
  ELSE IF Len(name) <= Len(StrEventsPrefix) + Len(StrJsonlSuffix) THEN -1
  ELSE IF SubSeq(name, Len(name) - Len(StrJsonlSuffix) + 1, Len(name))
            # StrJsonlSuffix THEN -1
  ELSE LET mid == SubSeq(name, Len(StrEventsPrefix) + 1,
                         Len(name) - Len(StrJsonlSuffix))
       IN  IF ~is_digits(mid) THEN -1 ELSE stoll(mid)

\* The names of the files of an output directory that are not run files:
\* notes.txt, events_.jsonl, events_1a.jsonl, events_12.json,
\* xevents_3.jsonl, events_4.jsonl.bak
OtherNames ==
  << <<110, 111, 116, 101, 115, 46, 116, 120, 116>>,
     StrEventsPrefix \o StrJsonlSuffix,
     StrEventsPrefix \o <<49, 97>> \o StrJsonlSuffix,
     StrEventsPrefix \o <<49, 50, 46, 106, 115, 111, 110>>,
     <<120>> \o StrEventsPrefix \o <<51>> \o StrJsonlSuffix,
     StrEventsPrefix \o <<52>> \o StrJsonlSuffix \o <<46, 98, 97, 107>> >>

\* The file name of a path of the model
file_name(p) ==
  IF p[2] = "events" THEN primary_file_name(p[3])
  ELSE IF p[2] = "latest" THEN StrEventsLatest
  ELSE OtherNames[p[3] + 1]

----------------------------------------------------------------------------
(* Specification SpecIncludes: load_config on a set of configuration files *)
(* that name each other in their includes lists                            *)
(* (src/core/util/config_loader.cpp:66-109, 120-125).  out holds the       *)
(* files, the call stack of load_with_includes and the result.             *)

\* The configuration files that exist, and a path no file is at.
IncludeFiles == {"a.yaml", "b.yaml"}
MissingFile == "m.yaml"

\* The includes list of a file: up to two paths.
IncludeLists ==
  {<<>>} \cup {<<x>> : x \in IncludeFiles \cup {MissingFile}}
         \cup {<<x, y>> : x, y \in IncludeFiles \cup {MissingFile}}

\* load_yaml_file(path)
load_yaml_file(path) == IF path \in IncludeFiles THEN kOk ELSE kNotFound

IncludesIdle(inc) ==
  [pc |-> "idle", includes |-> inc, stack |-> <<>>, status |-> kOk, merged |-> <<>>]

InitIncludes ==
  /\ CoreIdle
  /\ fdir = <<>>
  /\ fsrc = FrameDirInit([path |-> "", loop |-> FALSE])
  /\ isrc = FrameDirIdxInit([path |-> "", loop |-> FALSE])
  /\ synth = SynthInit(SynthDefault)
  /\ \E inc \in [IncludeFiles -> IncludeLists] : out = IncludesIdle(inc)
  /\ seen = <<>>

\* load_config(path) up to its call of load_with_includes(path), and
\* lines 81-83 of that call: the file is loaded or the error is returned.
LoadConfigCall(path) ==
  /\ out.pc = "idle"
  /\ out' = IF load_yaml_file(path) # kOk
              THEN [out EXCEPT !.pc = "returned", !.status = load_yaml_file(path)]
              ELSE [out EXCEPT !.pc = "loading",
                               !.stack = <<[path |-> path, i |-> 0, merged |-> <<>>]>>]
  /\ UNCHANGED <<coreVars, fdir, fsrc, isrc, synth, seen>>

\* Lines 96-100: the call on top of the stack reaches its next include and
\* calls load_with_includes on it.  A child that cannot be loaded returns
\* an error, which every caller passes on; a call the stack has no room
\* for ends the process.
IncludeChild ==
  /\ out.pc = "loading"
  /\ \E top \in {out.stack[Len(out.stack)]} :
       /\ top.i < Len(out.includes[top.path])
       /\ \E child \in {out.includes[top.path][top.i + 1]} :
            out' = IF Len(out.stack) >= MaxIncludeDepth
                     THEN [out EXCEPT !.pc = "stack_exhausted"]
                   ELSE IF load_yaml_file(child) # kOk
                     THEN [out EXCEPT !.pc = "returned", !.stack = <<>>,
                                      !.status = load_yaml_file(child)]
                   ELSE [out EXCEPT !.stack =
                           Append(@, [path |-> child, i |-> 0, merged |-> <<>>])]
  /\ UNCHANGED <<coreVars, fdir, fsrc, isrc, synth, seen>>

\* Lines 101, 105-108: the call on top of the stack has gone through its
\* includes, merges its own file last and returns; its caller merges the
\* result and moves to its next include, and load_config goes on to build
\* and validate the configuration.
IncludeReturn ==
  /\ out.pc = "loading"
  /\ \E top \in {out.stack[Len(out.stack)]} :
       /\ top.i = Len(out.includes[top.path])
       /\ \E result \in {Append(top.merged, top.path)}, d \in {Len(out.stack)} :
            out' = IF d = 1
                     THEN [out EXCEPT !.pc = "returned", !.stack = <<>>,
                                      !.status = kOk, !.merged = result]
                     ELSE [out EXCEPT !.stack =
                             [SubSeq(@, 1, d - 1) EXCEPT
                                ![d - 1].i = @ + 1,
                                ![d - 1].merged = @ \o result]]
  /\ UNCHANGED <<coreVars, fdir, fsrc, isrc, synth, seen>>

NextIncludes ==
  \/ \E path \in IncludeFiles \cup {MissingFile} : LoadConfigCall(path)
  \/ IncludeChild
  \/ IncludeReturn

SpecIncludes == InitIncludes /\ [][NextIncludes]_vars

\* load_config running on: a step that can be taken is taken.
SpecIncludesLive == InitIncludes /\ [][NextIncludes]_vars /\ WF_vars(NextIncludes)

----------------------------------------------------------------------------
(* Specification SpecReplay: the driver whose loop calls reset() on the    *)
(* source at end of stream (src/apps/wm_node/main.cpp:349-495), run on the *)
(* indexed directory reader after its configuration has been loaded.  out  *)
(* holds main's locals, seen what has happened so far.                     *)

MsgLoopingToStart == <<108, 111, 111, 112, 105, 110, 103, 32, 116, 111, 32, 115, 116,
                       97, 114, 116>>
MsgEndOfReplay    == <<101, 110, 100, 32, 111, 102, 32, 114, 101, 112, 108, 97, 121>>
MsgAliveFrames(tick_count, frame_count) ==
  MsgAlive(tick_count) \o <<32, 102, 114, 97, 109, 101, 115, 61>> \o to_string(frame_count)
MsgFrameReceived(frame_id, npoints) ==
  <<102, 114, 97, 109, 101, 95, 105, 100, 61>> \o frame_id \o
  <<32, 112, 111, 105, 110, 116, 115, 61>> \o to_string(npoints)

\* RuntimeParams and SourceParams as main reads them; the source type is
\* frame_dir.
ReplayParams ==
  [heartbeat_period_s : {3}, frame_event_every_n : {0, 2}, max_runtime_s : {0, 5},
   loop : BOOLEAN, frame_dir_root : {"", "frames"}]

\* The frame directories: any of the files 000000.bin and 000001.bin, all of
\* a good size, or an empty 000000.bin before a good 000001.bin.
ReplayDirs ==
  {[n \in S |-> [regular |-> TRUE, size |-> GoodSize]] :
     S \in SUBSET {frame_filename(0), frame_filename(1)}}
  \cup {[n \in {frame_filename(0), frame_filename(1)} |->
           [regular |-> TRUE, size |-> IF n = frame_filename(0) THEN 0 ELSE GoodSize]]}

ReplayIdle ==
  [pc |-> "entry", rt |-> CHOOSE p \in ReplayParams : TRUE, t_start |-> 0,
   next_tick |-> 0, last_hb |-> 0, tick_count |-> 0, frame_count |-> 0, exit |-> -1]

\* seen: the frames pulled, the calls of reset() that returned OK, the
\* frames pulled since the last of them (or since the start), and the
\* number of resets that came after an earlier reset with no frame pulled
\* in between.
ReplaySeenInit == [pulled |-> 0, resets |-> 0, since |-> 0, bare |-> 0]

InitReplay ==
  /\ CoreIdle
  /\ fdir \in ReplayDirs
  /\ fsrc = FrameDirInit([path |-> "", loop |-> FALSE])
  /\ isrc = FrameDirIdxInit([path |-> "", loop |-> FALSE])
  /\ synth = SynthInit(SynthDefault)
  /\ out = ReplayIdle
  /\ seen = ReplaySeenInit

\* main.cpp:364-420: the source is constructed and opened, the runner
\* started, the loop's locals set
ReplayEntry(p, io) ==
  /\ out.pc = "entry"
  /\ \E src \in {FrameDirIdxOpen(FrameDirIdxInit([path |-> p.frame_dir_root,
                                                  loop |-> p.loop]))} :
     \E st \in {RunnerStart(runner, sink, files, steady, wall, io)} :
         IF src.status # kOk
           THEN /\ out' = [out EXCEPT !.pc = "exited", !.rt = p, !.exit = 2]
                /\ UNCHANGED <<files, sink, runner, isrc>>
         ELSE IF st.status # kOk
           THEN /\ out' = [out EXCEPT !.pc = "exited", !.rt = p, !.exit = 2]
                /\ runner' = st.runner
                /\ sink' = SinkClose(st.sink)
                /\ files' = st.files
                /\ isrc' = src.src
         ELSE /\ out' = [pc |-> "head", rt |-> p, t_start |-> steady,
                         next_tick |-> steady + MainTickPeriod, last_hb |-> steady,
                         tick_count |-> 0, frame_count |-> 0, exit |-> -1]
              /\ runner' = st.runner
              /\ sink' = st.sink
              /\ files' = st.files
              /\ isrc' = src.src
  /\ UNCHANGED <<lsink, steady, wall, ret, hist, esc, fdir, fsrc, synth, seen>>

\* main.cpp:421-444: the runtime limit, then the heartbeat
ReplayHead(io) ==
  /\ out.pc = "head"
  /\ \E now \in {steady}, rt \in {out.rt} :
     \E limit \in {rt.max_runtime_s > 0 /\ now - out.t_start >= rt.max_runtime_s},
        due \in {now - out.last_hb >= rt.heartbeat_period_s} :
     \E sd \in {RunnerEmitEvent(runner, sink, files, steady, wall, "shutdown",
                                MsgMaxRuntime, io)},
        hb \in {RunnerEmitHeartbeat(runner, sink, files, steady, wall,
                                    MsgAliveFrames(out.tick_count, out.frame_count),
                                    io)} :
     \E sf \in {SinkFlush(sd.sink, sd.files, io)},
        hf \in {SinkFlush(hb.sink, hb.files, io)} :
         IF limit
           THEN /\ sink' = sf.sink
                /\ files' = sf.files
                /\ out' = [out EXCEPT !.pc = "return"]
         ELSE IF due
           THEN IF hb.status # kOk
                  THEN /\ sink' = hb.sink
                       /\ files' = hb.files
                       /\ out' = [out EXCEPT !.pc = "return", !.last_hb = now]
                  ELSE /\ sink' = hf.sink
                       /\ files' = hf.files
                       /\ out' = [out EXCEPT !.pc = "pull", !.last_hb = now]
         ELSE /\ out' = [out EXCEPT !.pc = "pull"]
              /\ UNCHANGED <<sink, files>>
  /\ UNCHANGED <<lsink, runner, steady, wall, ret, hist, esc, fdir, fsrc, isrc, synth,
                 seen>>

\* main.cpp:446-480: one call of next(); a frame is counted and reported
\* every frame_event_every_n ticks; at end of stream the source is reset
\* when loop is set, and the loop is left otherwise; then the tick count
ReplayPull(io) ==
  /\ out.pc = "pull"
  /\ out.tick_count < MaxReplayTicks
  /\ \E nx \in {FrameDirIdxNext(isrc, fdir, io)}, rt \in {out.rt} :
     \E rs \in {FrameDirIdxReset(nx.src)},
        report \in {rt.frame_event_every_n > 0 /\
                      out.tick_count % rt.frame_event_every_n = 0} :
     \E em \in {RunnerEmitEvent(runner, sink, files, steady, wall, "frame_received",
                                MsgFrameReceived(nx.frame.frame_id, nx.frame.npoints),
                                io)},
        rr \in {RunnerEmitEvent(runner, sink, files, steady, wall, "replay_reset",
                                MsgLoopingToStart, io)},
        eof \in {RunnerEmitEvent(runner, sink, files, steady, wall, "replay_eof",
                                 MsgEndOfReplay, io)} :
     \E rf \in {SinkFlush(rr.sink, rr.files, io)},
        ef \in {SinkFlush(eof.sink, eof.files, io)} :
         IF nx.status = kOk
           THEN /\ isrc' = nx.src
                /\ seen' = [seen EXCEPT !.pulled = @ + 1, !.since = @ + 1]
                /\ IF report
                     THEN /\ sink' = em.sink
                          /\ files' = em.files
                          /\ out' = IF em.status # kOk
                                      THEN [out EXCEPT !.pc = "return",
                                                       !.frame_count = @ + 1]
                                      ELSE [out EXCEPT !.pc = "pace",
                                                       !.frame_count = @ + 1,
                                                       !.tick_count = @ + 1]
                     ELSE /\ out' = [out EXCEPT !.pc = "pace", !.frame_count = @ + 1,
                                                !.tick_count = @ + 1]
                          /\ UNCHANGED <<sink, files>>
         ELSE IF nx.status = kOutOfRange
           THEN IF out.rt.loop
                  THEN IF rs.status # kOk
                         THEN /\ out' = [out EXCEPT !.pc = "return"]
                              /\ UNCHANGED <<sink, files, isrc, seen>>
                         ELSE /\ isrc' = rs.src
                              /\ sink' = rf.sink
                              /\ files' = rf.files
                              /\ out' = [out EXCEPT !.pc = "pace", !.tick_count = @ + 1]
                              /\ seen' = [seen EXCEPT
                                   !.resets = @ + 1, !.since = 0,
                                   !.bare = IF seen.resets > 0 /\ seen.since = 0
                                              THEN @ + 1 ELSE @]
                  ELSE /\ sink' = ef.sink
                       /\ files' = ef.files
                       /\ out' = [out EXCEPT !.pc = "return"]
                       /\ UNCHANGED <<isrc, seen>>
         ELSE /\ out' = [out EXCEPT !.pc = "return"]
              /\ UNCHANGED <<sink, files, isrc, seen>>
  /\ UNCHANGED <<lsink, runner, steady, wall, ret, hist, esc, fdir, fsrc, synth>>

\* main.cpp:482-490: the iteration's work has taken `work`; sleep_until
\* returns at the boundary or `late` after it.
ReplayPace(work, late) ==
  /\ out.pc = "pace"
  /\ \E after \in {steady + work} :
     \E p \in {tick_pacing(out.next_tick, after, MainTickPeriod)} :
     \E wake \in {IF p.sleeps THEN out.next_tick + late ELSE after} :
         /\ p.sleeps \/ late = 0
         /\ steady' = wake
         /\ out' = [out EXCEPT !.pc = "head", !.next_tick = p.next_tick]
  /\ UNCHANGED <<files, sink, lsink, runner, wall, ret, hist, esc, fdir, fsrc, isrc,
                 synth, seen>>

\* main.cpp:395-400, 493-494: the guard stops the runner; main returns 0
ReplayReturn(io) ==
  /\ out.pc = "return"
  /\ \E r \in {RunnerStop(runner, sink, files, io)} :
         /\ runner' = r.runner
         /\ sink' = r.sink
         /\ files' = r.files
  /\ out' = [out EXCEPT !.pc = "exited", !.exit = 0]
  /\ UNCHANGED <<lsink, steady, wall, ret, hist, esc, fdir, fsrc, isrc, synth, seen>>

NextReplay ==
  \/ \E p \in ReplayParams, io \in IoFor({"openL"}) : ReplayEntry(p, io)
  \/ \E io \in IoFor({"wF"}) : ReplayHead(io)
  \/ \E io \in IoFor({"rd", "wF"}) : ReplayPull(io)
  \/ \E work \in WorkTimes, late \in SleepLate : ReplayPace(work, late)
  \/ \E io \in {IoAllOk} : ReplayReturn(io)

SpecReplay == InitReplay /\ [][NextReplay]_vars

----------------------------------------------------------------------------
(* Properties *)

\* The two files of the session the sink holds.
ActiveFiles == {sink.path_, sink.latest_path_}

\* The step is a call of the named operation.
EmitStep == ret'.op = "emit" /\ hist'.emits = hist.emits + 1
OpenStep == ret'.op = "open" /\ hist'.opens = hist.opens + 1

\* C1: an emit on a sink that has had no successful open since it was
\* constructed or last closed returns a status that is not OK and appends
\* nothing to any file.
C1_EmitWhileNotOpen ==
  [][(EmitStep /\ ~hist.session) => (ret'.status # kOk /\ files' = files)]_vars

\* C2: the sink holds at most one session: whenever it is open both
\* streams are open on the paths of the last open, and an emit changes no
\* file other than the two files of the run given to the last open.
C2_OneSession ==
  [][/\ sink'.open_ =>
          /\ sink'.f_.is_open /\ sink'.f_.path = sink'.path_
          /\ sink'.latest_.is_open /\ sink'.latest_.path = sink'.latest_path_
     /\ EmitStep =>
          \A p \in DOMAIN files :
            p \notin {PrimaryPath(hist.run.out_dir, hist.run.wall_start_time_ns),
                      LatestPath(hist.run.out_dir)}
              => (p \in DOMAIN files' /\ files'[p] = files[p])]_vars

\* C2 witness: open was called on an open sink, succeeded, and an event was
\* then emitted while the earlier run's primary file exists.
C2_Witness ==
  /\ hist.reopen /\ hist.session /\ hist.okEmits >= 1 /\ ret.op = "emit"
  /\ \E p \in DOMAIN files : p[2] = "events" /\ p # sink.path_

\* The line starts a run_started record carrying the two fingerprints of run.
IsHeaderOf(line, run) ==
  /\ Len(line) >= 1
  /\ line[1] = Tag("type", "run_started")
  /\ \E i \in 1..Len(line) : line[i] = Chunk("config_hash", run.config_hash)
  /\ \E i \in 1..Len(line) : line[i] = Chunk("calibration_hash", run.calibration_hash)

\* C3: in a session the first line of each active file is the run_started
\* header carrying the fingerprints of the RunInfo given to open, and open
\* writes exactly one line to each file.
C3_HeaderFirstLine ==
  hist.session =>
    \A p \in ActiveFiles :
      LET ls == Lines(files[p])
      IN  /\ Len(ls) >= 1
          /\ IsHeaderOf(ls[1], hist.run)
          /\ (ret.op = "open" => Len(ls) = 1)

\* C4: an emit that returns OK appends exactly one newline-terminated line
\* to each active file, whatever the message is.
C4_OneLinePerEmit ==
  [][(EmitStep /\ ret'.status = kOk) =>
        \A p \in ActiveFiles :
          Len(Lines(files'[p])) = Len(Lines(files[p])) + 1]_vars

HexValue(ch) ==
  IF ch \in 48..57 THEN ch - 48
  ELSE IF ch \in 97..102 THEN ch - 87
  ELSE IF ch \in 65..70 THEN ch - 55
  ELSE 0

IsHex(ch) == ch \in (48..57) \cup (97..102) \cup (65..70)

\* The character a two-character JSON escape stands for.
SimpleUnescape(c) ==
  CASE c = 98  -> 8
    [] c = 102 -> 12
    [] c = 110 -> 10
    [] c = 114 -> 13
    [] c = 116 -> 9
    [] OTHER   -> c

\* The standard JSON unescaping of the inside of a string literal.
RECURSIVE json_unescape(_)
json_unescape(t) ==
  IF t = <<>> THEN <<>>
  ELSE IF Head(t) # 92 THEN <<Head(t)>> \o json_unescape(Tail(t))
  ELSE IF Len(t) < 2 THEN <<>>
  ELSE IF t[2] = 117
    THEN IF Len(t) < 6 THEN <<>>
         ELSE <<HexValue(t[3]) * 4096 + HexValue(t[4]) * 256
                + HexValue(t[5]) * 16 + HexValue(t[6])>>
              \o json_unescape(SubSeq(t, 7, Len(t)))
  ELSE <<SimpleUnescape(t[2])>> \o json_unescape(SubSeq(t, 3, Len(t)))

\* No raw double quote, no raw character below 0x20, and every backslash
\* starts a valid JSON escape sequence.
RECURSIVE LineSafe(_)
LineSafe(t) ==
  IF t = <<>> THEN TRUE
  ELSE IF Head(t) # 92
    THEN Head(t) # 34 /\ Head(t) >= 32 /\ LineSafe(Tail(t))
  ELSE /\ Len(t) >= 2
       /\ \/ /\ t[2] \in {34, 92, 47, 98, 102, 110, 114, 116}
             /\ LineSafe(SubSeq(t, 3, Len(t)))
          \/ /\ t[2] = 117
             /\ Len(t) >= 6
             /\ \A i \in 3..6 : IsHex(t[i])
             /\ LineSafe(SubSeq(t, 7, Len(t)))

\* C5: the output of escape_json is line-safe and JSON unescaping gives
\* back the input.
C5_EscapeReversible ==
  esc.done => (LineSafe(esc.output) /\ json_unescape(esc.output) = esc.input)

\* C5 witness: a string holding a quote, a newline and a backslash has been
\* escaped.
C5_Witness ==
  esc.done /\ esc.input = <<34, 10, 92>> /\ Len(esc.output) = 6

\* C6: after a successful open and after every emit that returned OK the
\* latest file is a byte-for-byte copy of the primary file of the run.
C6_LatestMirrorsPrimary ==
  (hist.session /\ (ret.op = "open" \/ (ret.op = "emit" /\ ret.status = kOk)))
    => files[sink.latest_path_] = files[sink.path_]

\* C6 witness: two emits returned OK in the session.
C6_Witness ==
  /\ hist.session /\ ret.op = "emit" /\ ret.status = kOk /\ hist.okEmits = 2
  /\ Len(Lines(files[sink.path_])) >= 3

\* C7: a successful open leaves only the header of its run in the latest
\* file; when the previous successful open had the same out_dir and another
\* wall-clock start the primary paths differ, the latest path is the same,
\* and the earlier primary file keeps its content.
C7_RunFiles ==
  [][OpenStep =>
       /\ hist'.session =>
            files'[sink'.latest_path_] = RunHeaderLine(hist'.run) \o <<NL>>
       /\ ( /\ hist.okRun # NoRun
            /\ hist.okRun.out_dir = hist'.run.out_dir
            /\ hist.okRun.wall_start_time_ns # hist'.run.wall_start_time_ns )
          => /\ hist'.session => /\ sink'.path_ # hist.okPath
                                 /\ sink'.latest_path_ = hist.okLatest
             /\ hist.okPath \in DOMAIN files'
             /\ files'[hist.okPath] = files[hist.okPath]]_vars

\* C7 witness: a second open succeeded while the primary file of an earlier
\* run, with its header and an event, is still there.
C7_Witness ==
  /\ hist.session /\ hist.opens = 2 /\ ret.op = "open"
  /\ Len(Lines(files[sink.latest_path_])) = 1
  /\ \E p \in DOMAIN files :
       p[2] = "events" /\ p # sink.path_ /\ Len(Lines(files[p])) >= 2

\* C8: an emit or a flush during which a write or a flush of a stream
\* failed returns an I/O error.
C8_FailureSurfaces ==
  (ret.op \in {"emit", "flush"} /\ ret.iofail) => ret.status = kIoError

\* C9: stop leaves the sink closed and the runner not started, reports no
\* error, and a stop that follows a stop changes nothing.
C9_StopAlwaysSafe ==
  [][ret'.op = "stop" =>
       /\ ~sink'.open_ /\ ~sink'.f_.is_open /\ ~sink'.latest_.is_open
       /\ ~runner'.started_
       /\ ret'.status = kOk
       /\ (ret.op = "stop" =>
             (sink' = sink /\ runner' = runner /\ files' = files))]_vars

\* C9 witness: stop was called on a started runner and the flush failed.
C9_Witness ==
  ret.op = "stop" /\ ret.iofail /\ hist.opens >= 1 /\ ~sink.open_

\* The numbers of the t_ns fields of a file, in file order.
TnsOf(text) ==
  LET sel == SelectSeq(text, LAMBDA it : it[1] = "t_ns")
  IN  [i \in 1..Len(sel) |-> sel[i][3]]

\* C10: within a run the header has t_ns 0 and the t_ns values of the
\* lines of each file are non-negative and never decrease.
C10_LogicalTimeMonotone ==
  hist.session =>
    \A p \in ActiveFiles :
      LET ts == TnsOf(files[p])
      IN  /\ Len(ts) >= 1
          /\ ts[1] = 0
          /\ \A i \in 1..Len(ts) : ts[i] >= 0
          /\ \A i \in 1..(Len(ts) - 1) : ts[i] <= ts[i + 1]

\* C10 witness: two events were written after the header, the later with a
\* larger t_ns, while the wall clock fell below the wall time of the start.
C10_Witness ==
  /\ hist.session /\ wall < runner.t0_wall_ns_
  /\ LET ts == TnsOf(files[sink.path_])
     IN  Len(ts) = 3 /\ ts[3] > ts[2]
  /\ \E i \in 1..Len(files[sink.path_]) :
       /\ files[sink.path_][i][1] = "t_wall_ns"
       /\ files[sink.path_][i][3] < runner.t0_wall_ns_

\* The step is a call of start().
StartStep == ret'.op = "start" /\ hist'.opens = hist.opens + 1

\* The run files (events_<digits>.jsonl) of the runner's output directory.
RunFiles(fls) ==
  {p \in DOMAIN fls : p[1] = runner.cfg_.out_dir /\ p[2] = "events"}

\* The keep_last files of a set of run files with the largest timestamps.
Newest(paths) ==
  {p \in paths : Cardinality({q \in paths : q[3] > p[3]}) < KeepLast}

C12_PruneFailureSwallowed ==
  [][StartStep =>
       \E io \in IoFor({"openF"}) :
         LET r == RunnerStart(runner, sink, files, steady, wall, io)
         IN  ret'.status = r.status /\ sink' = r.sink /\ runner' = r.runner]_vars

----------------------------------------------------------------------------
(* Directory readers *)

\* The listing reader is open without looping and has returned every file
\* of its list once since it was opened.
FdExhausted ==
  /\ fsrc.opened_ /\ ~fsrc.cfg_.loop
  /\ Len(seen) = Len(fsrc.frame_ids_)
  /\ {seen[i] : i \in DOMAIN seen} = {fsrc.frame_ids_[i] : i \in DOMAIN seen}

\* The indexed reader is open and has returned, since it was opened or
\* reset, every file of the numbered run that starts at index 0.
IdxExhausted ==
  /\ isrc.opened_ /\ ~isrc.cfg_.loop
  /\ seen = [i \in 1..Len(seen) |-> frame_filename(i - 1)]
  /\ frame_filename(Len(seen)) \notin DOMAIN fdir

\* C13: once a directory reader opened without looping has returned every
\* file of its list once, next() returns the end-of-stream outcome
\* (out-of-range), no frame and no other error, and leaves the reader as it
\* was, so that the same holds for every later call while it stays open.
\* The directory is not changed while it is read.
C13_EofAfterExhausted ==
  /\ FdExhausted =>
       \A io \in IoFor({"openF", "rd"}) :
          LET r == FrameDirNext(fsrc, fdir, io)
          IN  r.status = kOutOfRange /\ r.frame = NoFrame /\ r.src = fsrc
  /\ IdxExhausted =>
       \A io \in IoFor({"openF", "rd"}) :
          LET r == FrameDirIdxNext(isrc, fdir, io)
          IN  r.status = kOutOfRange /\ r.frame = NoFrame /\ r.src = isrc

\* C13 witness: a listing reader that returned MaxFrames files and was then
\* asked for another one.
C13_Witness ==
  /\ FdExhausted /\ Len(seen) = MaxFrames
  /\ out.op = "next" /\ out.status = kOutOfRange

\* The regular files of the directory whose name ends in ".bin".
BinFiles ==
  {n \in DOMAIN fdir :
     /\ fdir[n].regular
     /\ Len(n) > 4
     /\ <<n[Len(n) - 3], n[Len(n) - 2], n[Len(n) - 1], n[Len(n)]>> = <<46, 98, 105, 110>>}

\* a comes before b in byte-wise order: at the first position where they
\* differ a has the smaller byte or has ended.
ByteOrderBefore(a, b) ==
  \E k \in 1..(Len(b)) :
     /\ \A j \in 1..(k - 1) : j <= Len(a) /\ a[j] = b[j]
     /\ (k > Len(a) \/ (k - 1 < Len(a) /\ a[k] < b[k]))

\* C14: since the listing reader was opened, the i-th successful next(), for
\* i up to the number N of .bin files in the directory, returned the .bin
\* file with exactly i-1 .bin files before it in byte-wise order of name,
\* whatever order the directory was listed in; no successful next() returned
\* an entry that is not a .bin file.
C14_SortedOnce ==
  fsrc.opened_ =>
    /\ \A i \in DOMAIN seen : seen[i] \in BinFiles
    /\ \A i \in DOMAIN seen :
         i <= Cardinality(BinFiles) =>
           Cardinality({m \in BinFiles : ByteOrderBefore(m, seen[i])}) = i - 1

\* C14 witness: all MaxFrames files were returned; they include "10.bin",
\* "9.bin" and the name that starts with the byte 200.
C14_Witness ==
  /\ fsrc.opened_ /\ out.op = "next" /\ out.status = kOk
  /\ Len(seen) = MaxFrames
  /\ \E i, j \in DOMAIN seen :
        seen[i] = BinName(<<57>>) /\ seen[j] = BinName(<<200>>)

\* The result is a frame and nothing else, the end of the stream and nothing
\* else, or another error and nothing else.
OneOutcome(r) ==
  \/ r.status = kOk /\ r.frame # NoFrame /\ r.frame.npoints >= 1
  \/ r.status = kOutOfRange /\ r.frame = NoFrame
  \/ r.status \notin {kOk, kOutOfRange, Thrown} /\ r.frame = NoFrame

\* The listing reader is not in use: nothing was called on it yet, its last
\* open failed, or it was closed.  next() does not change that.
FdMisuse ==
  \/ ~fsrc.opened_
  \/ out.op = "new"
  \/ out.op = "close"
  \/ out.op = "open" /\ out.status # kOk

\* C15: every next() of the listing reader returns exactly one of a frame,
\* the end of the stream, or an error; on a reader that was never opened,
\* whose open failed, or that was closed, it returns an error other than
\* the end of the stream, returns no frame, and leaves the reader unopened.
C15_OneOutcomeNoEofOnMisuse ==
  \A io \in IoFor({"openF", "rd"}) :
     LET r == FrameDirNext(fsrc, fdir, io)
     IN  /\ OneOutcome(r)
         /\ FdMisuse =>
              /\ r.status \notin {kOk, kOutOfRange, Thrown}
              /\ r.frame = NoFrame
              /\ ~r.src.opened_

\* C15 witness: a reader that returned frames was closed, next() was called
\* on it and returned invalid-argument.
C15_Witness ==
  /\ ~fsrc.opened_ /\ seen # <<>>
  /\ out = [op |-> "next", status |-> kInvalidArgument, frame |-> NoFrame]

\* The file the listing reader reads at its next call, when it is open and
\* has one to read; <<>> otherwise.
FdNextName ==
  IF ~fsrc.opened_ \/ fsrc.frame_ids_ = <<>> THEN <<>>
  ELSE IF fsrc.idx_ < Len(fsrc.frame_ids_) THEN fsrc.frame_ids_[fsrc.idx_ + 1]
  ELSE IF fsrc.cfg_.loop THEN fsrc.frame_ids_[1]
  ELSE <<>>

\* The same for the indexed reader.
IdxNextName ==
  IF isrc.opened_ /\ frame_filename(isrc.idx_) \in DOMAIN fdir
    THEN frame_filename(isrc.idx_)
    ELSE <<>>

\* C16: when a directory reader reads a frame file without an I/O failure,
\* next() returns a frame with exactly size/16 points if the size of the
\* file is an exact multiple of the 16-byte record stride, and returns
\* corrupt-data otherwise.
C16_FrameIffMultipleOfStride ==
  /\ FdNextName # <<>> =>
       LET r == FrameDirNext(fsrc, fdir, IoAllOk)
           size == fdir[FdNextName].size
       IN  IF size % 16 = 0
             THEN r.status = kOk /\ r.frame.npoints = size \div 16
             ELSE r.status = kCorruptData
  /\ IdxNextName # <<>> =>
       LET r == FrameDirIdxNext(isrc, fdir, IoAllOk)
           size == fdir[IdxNextName].size
       IN  IF size % 16 = 0
             THEN r.status = kOk /\ r.frame.npoints = size \div 16
             ELSE r.status = kCorruptData

----------------------------------------------------------------------------
(* Synthetic source *)

\* The tick period of the configured rate, in milliseconds.
TickPeriod == IF synth.cfg_.tick_hz <= 0 THEN 100 ELSE 1000 \div synth.cfg_.tick_hz

\* C17: next() of the synthetic source returns OK at every call, in every
\* state reached by any interleaving of next() and reset(); the frame it
\* returned last is frame number k = seen.frames - 1 (counted from 0) since
\* construction or the last reset() and has timestamp k times the tick
\* period.
C17_AlwaysOkTimestampByTick ==
  /\ SynthNext(synth).status = kOk
  /\ out.op = "next" =>
       /\ out.status = kOk
       /\ out.frame.frame_id = "synth"
       /\ out.frame.t_ns = (seen.frames - 1) * TickPeriod

\* C17 witness: frames, a reset, then two more frames: the last one is
\* frame 1 since the reset, at one tick period.
C17_Witness ==
  /\ out.op = "next" /\ seen = [frames |-> 2, reset |-> TRUE]
  /\ out.frame.t_ns = TickPeriod /\ synth.cfg_.tick_hz = 1

\* The floor points of every frame of the configured source.
FloorPoints ==
  IF synth.cfg_.floor_grid_n < 2 THEN 4
  ELSE synth.cfg_.floor_grid_n * synth.cfg_.floor_grid_n

\* C18 as stated: with the obstacle enabled, a frame at logical time t has
\* the floor points only if t < obstacle_start_s, and the floor points plus
\* the 600 face points of the obstacle if t >= obstacle_start_s.
C18_ObstacleFromStart ==
  (out.op = "next" /\ synth.cfg_.obstacle_enabled) =>
    /\ out.frame.floor = FloorPoints
    /\ out.frame.obstacle =
         IF out.frame.t_ns < synth.cfg_.obstacle_start_s THEN 0 ELSE 600

\* C18 amended: with the obstacle enabled, a frame at logical time t has the
\* floor points only if t is below obstacle_start_s or below baseline_s,
\* and the floor points plus the 600 face points of the obstacle if t has
\* reached both.
C18_ObstacleAfterBaselineAndStart ==
  (out.op = "next" /\ synth.cfg_.obstacle_enabled) =>
    /\ out.frame.floor = FloorPoints
    /\ out.frame.obstacle =
         IF \/ out.frame.t_ns < synth.cfg_.obstacle_start_s
            \/ out.frame.t_ns < synth.cfg_.baseline_s
           THEN 0 ELSE 600

\* C18 witness: the default thresholds (baseline 5 s, start 8 s) at 10 Hz;
\* the frame of tick 80 is the one returned last and has the obstacle.
C18_Witness ==
  /\ synth.cfg_ = SynthDefault /\ synth.tick_ = 81
  /\ out.op = "next" /\ out.frame.t_ns = 8000 /\ out.frame.obstacle = 600


\* The characters to_hex produces.
HexChars == (48..57) \cup (97..102)

SameArgSameHex(S) == \A a, b \in S : a.arg = b.arg => a.hex = b.hex

SixteenHexChars(S) ==
  \A a \in S : Len(a.hex) = 16 /\ \A i \in 1..16 : a.hex[i] \in HexChars

DiffFields(a, b) ==
  {i \in DOMAIN ConfigFields :
     GetAt(a, ConfigFields[i][1]) # GetAt(b, ConfigFields[i][1])}

\* C20: whenever compute_config_hash was called for two configurations that
\* differ in exactly one field of Config, the byte sequences fed to the hash
\* in the two calls differ, and so do the two fingerprints (none of the
\* configurations hashed here collide).
C20_OneFieldChangesBytes ==
  \A a, b \in {e \in seen.config : e.via = "call"} :
    Cardinality(DiffFields(a.arg, b.arg)) = 1 =>
      a.fed # b.fed /\ a.hex # b.hex

\* C20 witness: the default configuration and the one that differs from it
\* in the run mode only were both hashed, and the bytes fed differ.
C20_Witness ==
  \E a, b \in {e \in seen.config : e.via = "call"} :
    /\ a.arg = DefaultConfig
    /\ DiffFields(a.arg, b.arg) = {1}
    /\ b.arg.mode = "kLive"
    /\ Len(a.fed) = Len(b.fed)
    /\ a.fed # b.fed

\* C21: the calibration fingerprint written into a run header depends on
\* the calibration sub-tree of the runner's configuration only: two starts
\* with configurations whose calibration sub-trees are equal wrote the same
\* calibration_hash, whatever else differs between the configurations.
C21_CalibrationHashOfSubtreeOnly ==
  \A a, b \in seen :
    a.cfg.calibration = b.cfg.calibration =>
      a.calibration_hash = b.calibration_hash

\* C21 witness: two runners whose configurations differ in a field outside
\* the calibration sub-tree have started; their headers carry different
\* configuration fingerprints and the same calibration fingerprint.
C21_Witness ==
  \E a, b \in seen :
    /\ a.cfg # b.cfg
    /\ a.cfg.calibration = b.cfg.calibration
    /\ a.config_hash # b.config_hash
    /\ a.calibration_hash = b.calibration_hash
    /\ a.calibration_hash = compute_calibration_hash(DefaultConfig.calibration)

----------------------------------------------------------------------------
(* The driver (SpecMain) *)

\* The failures that the process must report: bad arguments, a
\* configuration that cannot be loaded, a failed start, a source that
\* cannot be opened, and a failed heartbeat emit, frame emit, per-tick
\* flush or frame pull.
FatalErrors ==
  {"arguments", "load", "start", "source_open", "heartbeat", "frame_emit", "flush",
   "next"}

\* C22: the process exits with 0 on success, with 1 when the configuration
\* fails to load, and with 2 on every other fatal error (invalid arguments,
\* failed start, failed source open, a failed emit, flush or frame pull in
\* the loop).
C22_ExitCodes ==
  out.pc = "exited" =>
    out.exit = (IF seen.errors \cap FatalErrors = {} THEN 0
                ELSE IF "load" \in seen.errors THEN 1
                ELSE 2)

\* One of the three limits holds for the run: a tick limit, a duration
\* limit, or a directory source that does not loop.
Terminating(inp) ==
  inp.max_ticks > 0 \/ inp.max_run_s > 0 \/ (inp.type = "frame_dir" /\ ~inp.loop)

\* The loop has been left and the guard has not run yet; the condition the
\* loop was left on holds of main's locals and of the source.
LeftLoopOnCondition ==
  out.pc = "return" =>
    \/ /\ seen.reason = "max_ticks"
       /\ out.input.max_ticks > 0
       /\ out.tick_count >= out.input.max_ticks
    \/ /\ seen.reason = "max_run_s"
       /\ out.input.max_run_s > 0
       /\ steady - out.t_start >= out.input.max_run_s
    \/ /\ seen.reason = "eof"
       /\ out.input.type = "frame_dir"
       /\ ~out.input.loop
       /\ fsrc.idx_ >= Len(fsrc.frame_ids_)
    \/ /\ seen.reason = "error"
       /\ out.had_error
       /\ seen.errors \cap {"heartbeat", "frame_emit", "flush", "next"} # {}

\* C23: the driver loop is left only on one of its conditions (tick limit,
\* duration limit, end of a source that does not loop, or a failed emit,
\* flush or pull), and with a tick limit, a duration limit or a directory
\* source that does not loop the run that has entered the loop ends.
C23_LoopTerminates ==
  /\ [](LeftLoopOnCondition)
  /\ [](out.pc = "head" /\ Terminating(out.input) => <>(out.pc = "exited"))

\* A run on the synthetic source with only a duration limit has ended on it
\* after frames were pulled.
C23_Witness ==
  /\ out.pc = "exited"
  /\ out.input.type = "synth"
  /\ out.input.max_ticks = 0
  /\ out.input.max_run_s > 0
  /\ seen.reason = "max_run_s"
  /\ seen.pulled > 0


\* The primary event file of the run.
PrimaryLog == IF sink.path_ \in DOMAIN files THEN files[sink.path_] ELSE <<>>

\* The number of event lines of the given type in a text.
TypeCount(text, type) ==
  Cardinality({i \in 1..Len(text) : text[i] = Tag("type", type)})

\* C24: tick_count is the number of frames pulled, reported with a
\* frame_stats event and flushed successfully; a frame is pulled only while
\* max_ticks is zero or tick_count is below it; and a run that ends on
\* max_ticks = M has pulled exactly M frames and written exactly M
\* frame_stats lines.
C24_TickCountCountsFrames ==
  /\ out.tick_count = seen.flushed
  /\ seen.flushed <= seen.reported /\ seen.reported <= seen.pulled
  /\ (out.pc = "pull" /\ out.input.max_ticks > 0) => out.tick_count < out.input.max_ticks
  /\ seen.reason = "max_ticks" =>
       /\ seen.pulled = out.input.max_ticks
       /\ seen.reported = out.input.max_ticks
       /\ out.tick_count = out.input.max_ticks
       /\ TypeCount(PrimaryLog, "frame_stats") = out.input.max_ticks

\* A run with max_ticks = 2 has ended on it with two frames pulled.
C24_Witness ==
  /\ out.pc = "exited"
  /\ seen.reason = "max_ticks"
  /\ out.input.max_ticks = 2
  /\ seen.pulled = 2
  /\ TypeCount(PrimaryLog, "frame_stats") = 2


\* The event types that end a run without error.
TerminalTypes == {"shutdown", "input_eof"}

\* The number of terminal event lines in a text.
TerminalCount(text) == TypeCount(text, "shutdown") + TypeCount(text, "input_eof")

\* The type of the last line of a text ("none" if it has no line).
LastLineType(text) ==
  LET ends  == {i \in 1..Len(text) : text[i] = NL}
      last  == CHOOSE i \in ends : \A j \in ends : j <= i
      prior == {i \in ends : i < last}
      first == IF prior = {} THEN 1
               ELSE 1 + (CHOOSE i \in prior : \A j \in prior : j <= i)
  IN  IF ends = {} \/ first = last THEN "none" ELSE text[first][2]

\* The terminal event of the condition the loop was left on.
TerminalTypeOf(reason) == IF reason = "eof" THEN "input_eof" ELSE "shutdown"

\* The run has exited after the loop was left without error.
ExitedWithoutError ==
  out.pc = "exited" /\ seen.reason \in {"max_ticks", "max_run_s", "eof"}

C26_NoCatchUpBurst ==
  seen.pace.n > 0 =>
    /\ seen.pace.slept =>
         /\ seen.pace.after < seen.pace.before
         /\ seen.pace.wake >= seen.pace.before
         /\ seen.pace.boundary = seen.pace.before + MainTickPeriod
    /\ ~seen.pace.slept =>
         /\ seen.pace.after >= seen.pace.before
         /\ seen.pace.wake = seen.pace.after
         /\ seen.pace.boundary = seen.pace.after + MainTickPeriod
    /\ (~seen.pace.slept /\ ~seen.pace.prevSlept) => seen.pace.work >= MainTickPeriod
    /\ out.pc = "head" => out.next_tick = seen.pace.boundary

\* An iteration overran its boundary, was not followed by a sleep, and the
\* iteration after it finished early and slept.
C26_Witness ==
  /\ seen.pace.n >= 2
  /\ seen.pace.slept
  /\ ~seen.pace.prevSlept
  /\ out.pc = "head"


\* C27: after a heartbeat emit, a frame_stats emit or the per-tick flush has
\* returned an error no frame is pulled, no event is emitted and no file
\* changes, and the loop has been left; and when the source failed to open
\* no frame has been pulled and main has returned.
C27_NoSilentContinuation ==
  /\ [](/\ seen.late = 0
        /\ seen.failed => (out.pc \in {"return", "exited"} /\ out.had_error)
        /\ "source_open" \in seen.errors => (seen.pulled = 0 /\ out.pc = "exited"))
  /\ [][seen.failed =>
          (files' = files /\ seen'.pulled = seen.pulled /\ synth' = synth)]_vars

\* A run has exited with code 2 after its heartbeat or its per-tick flush
\* failed, and its log holds no shutdown line.
C27_Witness ==
  /\ out.pc = "exited"
  /\ out.exit = 2
  /\ seen.failed
  /\ seen.errors \cap {"heartbeat", "flush"} # {}
  /\ TypeCount(PrimaryLog, "shutdown") = 0


----------------------------------------------------------------------------
(* Configuration loading and validation (SpecConfig, SpecValidate) *)

\* C28: a run that was started (the sink opened and the header written) was
\* started with a configuration that validate_config accepts, and main
\* returned without starting a run for every file whose configuration
\* load_config or the re-validation rejects.
C28_StartedRunsAreValid ==
  /\ seen.started => validate_config(seen.cfg) = kOk
  /\ seen.started => validate_config(LoadedFields(seen.doc)) = kOk
  /\ (out.op # "new" /\ out.status = kInvalidArgument) => ~seen.started

\* A run was started by the main with overrides, from a file that sets a
\* field and with the node id overridden on the command line.
C28_Witness ==
  /\ seen.started
  /\ seen.via = "override"
  /\ seen.doc.key # 0
  /\ seen.cfg.node_id = StrA
  /\ seen.cfg # LoadedFields(seen.doc)
  /\ out.exit = 0


\* A float that is greater than zero.
F32Positive(v) == ~F32IsNaN(v) /\ v[4] < 128 /\ F32Magnitude(v) > 0

\* The ranges the claim names: a voxel size above zero and durations that
\* are not negative.
NumericInRange(cfg) ==
  /\ F32Positive(cfg.mapping.voxel_size_m)
  /\ cfg.baseline.capture_duration_ns >= 0
  /\ cfg.baseline.warmup_duration_ns >= 0
  /\ cfg.change.persistence_ns >= 0
  /\ cfg.replay.start_offset_ns >= 0
  /\ cfg.replay.end_offset_ns >= 0

\* C29: a configuration that validate_config accepts has a voxel size
\* above zero and no negative duration (baseline capture, warm-up, change
\* persistence, replay start and end offsets).
C29_AcceptedInRange ==
  (out.op = "validate" /\ out.status = kOk) => NumericInRange(out.cfg)


----------------------------------------------------------------------------
(* flush and close on a sink that is not open (Spec) *)

\* C30: on a sink that is not open, flush returns OK and leaves the sink as
\* it is, close returns, and neither changes a file or makes the sink
\* open; a close after a close changes nothing at all.
C30_ClosedSinkFlushCloseNoOp ==
  /\ [][(~sink.open_ /\ ret'.op = "flush") =>
          (ret'.status = kOk /\ files' = files /\ sink' = sink)]_vars
  /\ [][(~sink.open_ /\ ret'.op = "close") =>
          (ret'.status = kOk /\ files' = files /\ ~sink'.open_)]_vars
  /\ [](ret.op = "close" =>
          (~sink.open_ /\ SinkClose(sink) = sink /\
           SinkFlush(sink, files, IoAllOk).status = kOk))

\* A flush has returned OK on a sink whose open had failed, leaving a
\* stream in a failed state.
C30_Witness ==
  /\ ret.op = "flush"
  /\ ret.status = kOk
  /\ ~sink.open_
  /\ hist.opens > 0
  /\ (~sink.f_.good \/ ~sink.latest_.good)


----------------------------------------------------------------------------
(* File names (SpecNames) *)

\* C31: for two runs with start times a < b the primary file name of the
\* first sorts byte-wise before the primary file name of the second.
C31_NamesSortByStart ==
  (out.op = "names" /\ out.a < out.b) => string_less(out.name_a, out.name_b)


----------------------------------------------------------------------------
(* Failed open and failed start (Spec, SpecRunner) *)

\* C32: after an open that returned an error the sink is not open, neither
\* stream holds an open file, and an emit returns an error.
C32_FailedOpenLeavesClosed ==
  (ret.op = "open" /\ ret.status # kOk) =>
    /\ ~sink.open_
    /\ ~sink.f_.is_open
    /\ ~sink.latest_.is_open
    /\ \A e \in Events : SinkEmit(sink, files, e, IoAllOk).status # kOk


\* C33: after a start that returned an error the runner is not started and
\* the logical time it attaches to an event is 0, whatever the steady
\* clock reads.
C33_FailedStartNotStarted ==
  (ret.op = "start" /\ ret.status # kOk) =>
    /\ ~runner.started_
    /\ since_start_ns(runner, steady) = 0


----------------------------------------------------------------------------
(* Wall time of the runner's events (SpecRunner) *)

\* C34: within a run every line of the primary file carries a t_wall_ns
\* equal to the wall-clock time of the start plus the line's t_ns.
C34_WallAnchoredAtStart ==
  hist.session =>
    LET text == files[sink.path_]
    IN  \A i \in 1..Len(text) :
          text[i][1] = "t_ns" =>
            text[i + 2][3] = runner.t0_wall_ns_ + text[i][3]

----------------------------------------------------------------------------
(* What pruning removes (SpecPrune) *)

\* The name is events_<decimal digits>.jsonl.
IsRunFileName(name) ==
  \E n \in 1..(Len(name) - Len(StrEventsPrefix) - Len(StrJsonlSuffix)) :
    /\ SubSeq(name, 1, Len(StrEventsPrefix)) = StrEventsPrefix
    /\ SubSeq(name, Len(StrEventsPrefix) + n + 1, Len(name)) = StrJsonlSuffix
    /\ \A i \in 1..n : name[Len(StrEventsPrefix) + i] \in 48..57

----------------------------------------------------------------------------
(* The listing reader with looping (SpecFrameDir) *)

\* The listing reader is open with looping over a list that is not empty.
FdLooping == fsrc.opened_ /\ fsrc.cfg_.loop /\ fsrc.frame_ids_ # <<>>

----------------------------------------------------------------------------
(* Heartbeats of the driver loop (SpecMain) *)

\* The t_ns values of the heartbeat lines of a text, in file order.
HeartbeatTimes(text) ==
  LET at == {i \in 1..Len(text) : text[i] = Tag("type", "heartbeat")}
      nth(k) == CHOOSE i \in at : Cardinality({j \in at : j < i}) = k - 1
  IN  [k \in 1..Cardinality(at) |-> text[nth(k) + 1][3]]

\* The step is the head of a loop iteration in which a heartbeat is
\* emitted.
HeartbeatStep == out.pc = "head" /\ out'.last_hb = steady /\ out'.last_hb # out.last_hb

----------------------------------------------------------------------------
(* A next() that fails on a frame file (SpecFrameDir) *)

\* The step is a next() of the listing reader, or of the indexed reader,
\* that failed on a frame file: it could not be opened, is empty, has a size
\* that is no multiple of the record size, or could not be read in full.
FdNextFailedStep == out'.op = "next" /\ out'.status \in {kIoError, kCorruptData}
IdxNextFailedStep == out'.op = "idxNext" /\ out'.status \in {kIoError, kCorruptData}

\* C38 as stated: a next() that fails on a frame file leaves idx_ and
\* emitted_ as they were.
C38_FailedNextKeepsCursor ==
  [][/\ FdNextFailedStep =>
          (fsrc'.idx_ = fsrc.idx_ /\ fsrc'.emitted_ = fsrc.emitted_)
     /\ IdxNextFailedStep => isrc'.idx_ = isrc.idx_]_vars

\* C38 amended: a next() that fails on a frame file leaves emitted_ and the
\* file list as they were and the cursor on the same file, idx_ being
\* unchanged or moved from the end of the list to 0 by the wrap-around;
\* every call made next behaves as it would have before the failed call.
\* The indexed reader is left unchanged.
C38_FailedNextRetriesSameFile ==
  [][/\ FdNextFailedStep =>
          LET N == Len(fsrc.frame_ids_)
          IN  /\ fsrc'.emitted_ = fsrc.emitted_
              /\ fsrc'.frame_ids_ = fsrc.frame_ids_
              /\ fsrc'.opened_ = fsrc.opened_
              /\ fsrc'.idx_ % N = fsrc.idx_ % N
              /\ fsrc'.idx_ # fsrc.idx_ =>
                   (fsrc.idx_ = N /\ fsrc'.idx_ = 0 /\ fsrc.cfg_.loop)
              /\ \A io \in IoFor({"openF", "rd"}) :
                   FrameDirNext(fsrc', fdir, io) = FrameDirNext(fsrc, fdir, io)
     /\ IdxNextFailedStep => isrc' = isrc]_vars

\* C38 witness: the looping listing reader has returned every file of its
\* list once and its next() then failed to read the first file again:
\* idx_ is 0 and emitted_ is the length of the list.
C38_Witness ==
  /\ out.op = "next" /\ out.status = kIoError
  /\ fsrc.opened_ /\ fsrc.cfg_.loop
  /\ fsrc.idx_ = 0
  /\ fsrc.emitted_ = Len(fsrc.frame_ids_) /\ fsrc.emitted_ >= 2

----------------------------------------------------------------------------
(* Termination of load_config (SpecIncludesLive) *)

\* C39: every call of load_config returns, with a configuration or an
\* error status.
C39_LoadConfigReturns ==
  (out.pc = "loading") ~> (out.pc = "returned" /\ out.status \in {kOk, kNotFound})

----------------------------------------------------------------------------
(* Caller-driven looping (SpecReplay) *)

\* The step is an iteration in which the driver reset the source.
ReplayResetStep == out.pc = "pull" /\ seen'.resets = seen.resets + 1

\* C40: when the driver resets the source after an earlier reset, a frame
\* has been pulled since that earlier reset; and the event file holds no
\* more replay_reset lines than frames were pulled, plus one.
C40_FrameBetweenResets ==
  /\ [][(ReplayResetStep /\ seen.resets > 0) => seen.since > 0]_vars
  /\ [](TypeCount(PrimaryLog, "replay_reset") <= seen.pulled + 1)

====
